---------------------------- MODULE Spec2Model ----------------------------
(***************************************************************************)
(* A model of the dependency-injection container of package di             *)
(* (di/container.go, di/registration.go, the Lifetime and Scope types and  *)
(* the error types).                                                       *)
(*                                                                         *)
(* The specifications below are single-caller views: every public          *)
(* operation runs to completion before the next one starts; they differ    *)
(* in the values the callers pass.  reflect.Type values are                 *)
(* strings, objects are records [src, id]; a factory is the record of its  *)
(* reflected signature [kind, in, out].  A factory body is user code: a    *)
(* call of a valid factory yields a fresh non-nil object, or, for a        *)
(* (T, error) factory while the environment flag down is set, a non-nil    *)
(* error.                                                                  *)
(***************************************************************************)
EXTENDS Integers, Sequences, FiniteSets, TLC

\* ------------------------------------------------------------------ bounds
\* The number of steps of one run, the creations of scopes apart:
\* registrations, resolutions, Clear, and changes of the environment.
MaxOps == 5
\* The number of Scope objects created in one run.
MaxScopes == 2
\* The goroutines that call the container concurrently, and the number of
\* calls they make between them in one run.
NumGoroutines == 2
MaxCalls == 2

\* ------------------------------------------------------------- the universe
\* reflect.Type of the registered (target) types: two interface types.
Types == {"A", "B"}
\* The registration names in use; "" is the unnamed registration.
Names == {"", "n", "m"}
\* The scope names handed to CreateScope.
ScopeNames == {"s", "t"}

Transient == "Transient"
Singleton == "Singleton"
Scoped == "Scoped"
Lifetimes == {Transient, Singleton, Scoped}

\* Two more interface types, for registrations that nest deeper; they are
\* registered unnamed only.
MoreTypes == {"C", "D"}

\* registrationKey{typ, name}
registrationKey(typ, name) == <<typ, name>>
Keys ==
    {registrationKey(t, n) : t \in Types, n \in Names}
        \cup {registrationKey(t, "") : t \in MoreTypes}

\* Objects.  Nil is the nil interface value; Given(i) a pre-built object handed
\* to RegisterInstance; Made(i) the i-th object allocated by a factory call.
Nil == [src |-> "nil", id |-> 0]
Given(i) == [src |-> "given", id |-> i]
Made(i) == [src |-> "made", id |-> i]
\* The values a caller passes to RegisterInstance.
InstanceValues == {Nil, Given(1), Given(2)}

\* A *Scope argument: 0 is the nil scope, i >= 1 the i-th Scope object created.
NoScope == 0
ScopeIds == 1..MaxScopes

\* The empty map (make(map[...]...)).
EmptyMap == [k \in {} |-> Nil]


\* ------------------------------------------------------- factories (reflect)
\* A value handed to Register as its factory, as reflection sees it:
\* kind "func" with parameter types in and return types out, kind "value"
\* for something that is not a function, kind "nil" for the unset factory
\* field of a registration made by RegisterInstance.  new is "" for a
\* caller's function and the implementation type for RegisterType's closure.
Fn(in, out) == [kind |-> "func", in |-> in, out |-> out, new |-> ""]
NotAFunction == [kind |-> "value", in |-> <<>>, out |-> <<>>, new |-> ""]
NilFactory == [kind |-> "nil", in |-> <<>>, out |-> <<>>, new |-> ""]
\* The closure RegisterType synthesizes: func() TInterface whose body is
\* reflect.New(implType).Interface().(TInterface).
TypeFactory(ifaceType, implType) ==
    [kind |-> "func", in |-> <<>>, out |-> <<ifaceType>>, new |-> implType]

\* The factories callers register.
Factories ==
    { NotAFunction,
      Fn(<<>>, <<>>),
      Fn(<<>>, <<"A">>),
      Fn(<<>>, <<"B">>),
      Fn(<<>>, <<"ImplA">>),
      Fn(<<>>, <<"A", "error">>),
      Fn(<<>>, <<"A", "int">>),
      Fn(<<>>, <<"A", "error", "int">>),
      Fn(<<"B">>, <<"A">>),
      Fn(<<"A">>, <<"B">>),
      Fn(<<"A">>, <<"A">>) }

\* reflect.Type.Kind() == reflect.Interface
IsInterface(t) == t \in {"A", "B", "C", "D", "error"}
\* reflect.Type.Implements: *ImplA has the methods of A, *ImplB those of B.
Implements(t, iface) ==
    /\ IsInterface(iface)
    /\ \/ t = iface
       \/ t = "ImplA" /\ iface = "A"
       \/ t = "ImplB" /\ iface = "B"
\* reflect.Type.AssignableTo
AssignableTo(t, target) == t = target \/ Implements(t, target)

\* ------------------------------------------------------------------ errors
NoError == [e |-> "nil"]
ErrNotRegistered(t) == [e |-> "ErrNotRegistered", Type |-> t]
\* ErrCircularDependency that reports the repeated type only.
ErrCircularDependencyLast(chain) ==
    [e |-> "ErrCircularDependency", Chain |-> <<chain[Len(chain)]>>]
ErrCircularDependency(chain) == [e |-> "ErrCircularDependency", Chain |-> chain]
ErrResolutionFailed(t, cause) == [e |-> "ErrResolutionFailed", Type |-> t, Cause |-> cause]
ErrInvalidFactory(t, msg) == [e |-> "ErrInvalidFactory", Type |-> t, Message |-> msg]
\* The non-nil error a (T, error) factory returns while the environment is down.
FactoryError == [e |-> "factory error"]

\* errors.Unwrap applied until the innermost error: ErrResolutionFailed is the
\* only error of the package with an Unwrap method.
RECURSIVE RootCause(_)
RootCause(err) ==
    IF err.e = "ErrResolutionFailed" THEN RootCause(err.Cause) ELSE err

\* The number of ErrResolutionFailed layers around the innermost error.
RECURSIVE WrapDepth(_)
WrapDepth(err) ==
    IF err.e = "ErrResolutionFailed" THEN 1 + WrapDepth(err.Cause) ELSE 0

\* validateFactory with the check for zero return values left out.
validateFactoryNoZeroCheck(targetType, factory) ==
    IF factory.kind # "func"
    THEN ErrInvalidFactory(targetType, "factory must be a function")
    ELSE IF Len(factory.out) = 0
    THEN NoError
    ELSE IF /\ ~AssignableTo(factory.out[1], targetType)
            /\ ~(IsInterface(targetType) /\ Implements(factory.out[1], targetType))
    THEN ErrInvalidFactory(targetType, "factory return type is not assignable")
    ELSE IF Len(factory.out) = 2 /\ ~Implements(factory.out[2], "error")
    THEN ErrInvalidFactory(targetType, "second return value must be error")
    ELSE IF Len(factory.out) > 2
    THEN ErrInvalidFactory(targetType, "factory cannot return more than 2 values")
    ELSE NoError

\* validateFactory: NoError, or the ErrInvalidFactory of the first check that
\* fails, in the order of the code.
validateFactory(targetType, factory) ==
    IF factory.kind # "func"
    THEN ErrInvalidFactory(targetType, "factory must be a function")
    ELSE IF Len(factory.out) = 0
    THEN ErrInvalidFactory(targetType, "factory must return a value")
    ELSE IF /\ ~AssignableTo(factory.out[1], targetType)
            /\ ~(IsInterface(targetType) /\ Implements(factory.out[1], targetType))
    THEN ErrInvalidFactory(targetType, "factory return type is not assignable")
    ELSE IF Len(factory.out) = 2 /\ ~Implements(factory.out[2], "error")
    THEN ErrInvalidFactory(targetType, "second return value must be error")
    ELSE IF Len(factory.out) > 2
    THEN ErrInvalidFactory(targetType, "factory cannot return more than 2 values")
    ELSE NoError

\* ----------------------------------------------------------- registrations
\* A RegistrationOption: WithLifetime(l) (AsSingleton, AsTransient and
\* AsScoped are WithLifetime of their lifetime) or WithName(n).
WithLifetime(lifetime) == [opt |-> "lifetime", lifetime |-> lifetime, name |-> ""]
WithName(name) == [opt |-> "name", lifetime |-> Transient, name |-> name]
AsSingleton == WithLifetime(Singleton)
AsTransient == WithLifetime(Transient)
AsScoped == WithLifetime(Scoped)

\* opt(reg) for one option.
ApplyOption(reg, o) ==
    IF o.opt = "lifetime"
    THEN [reg EXCEPT !.lifetime = o.lifetime]
    ELSE [reg EXCEPT !.name = o.name]

\* for _, opt := range opts { opt(reg) }
RECURSIVE ApplyOptions(_, _)
ApplyOptions(reg, opts) ==
    IF opts = <<>> THEN reg
    ELSE ApplyOptions(ApplyOption(reg, Head(opts)), Tail(opts))

\* The option lists callers pass: no option, a lifetime, a name, or both.
OptionLists ==
    {<<>>, <<WithName("n")>>}
    \cup {<<WithLifetime(l)>> : l \in Lifetimes}
    \cup {<<WithLifetime(l), WithName("n")>> : l \in Lifetimes}

\* The lifetime Register and RegisterType start from when no option sets one.
DefaultLifetime == Transient

\* The registration Register builds before the options are applied.
NewFactoryRegistration(targetType, factory) ==
    [targetType |-> targetType, implType |-> "", factory |-> factory,
     lifetime |-> DefaultLifetime, instance |-> Nil, name |-> ""]

\* The registration RegisterInstance builds before the options are applied.
NewInstanceRegistration(targetType, instance) ==
    [targetType |-> targetType, implType |-> "", factory |-> NilFactory,
     lifetime |-> Singleton, instance |-> instance, name |-> ""]

\* The registration RegisterType builds before the options are applied.
NewTypeRegistration(ifaceType, implType) ==
    [targetType |-> ifaceType, implType |-> implType,
     factory |-> TypeFactory(ifaceType, implType),
     lifetime |-> DefaultLifetime, instance |-> Nil, name |-> ""]


\* -------------------------------------------------------------------- state
VARIABLES
    registrations,   \* Container.registrations: registrationKey -> registration
    singletons,      \* Container.singletons: registrationKey -> object
    scopes,          \* Container.scopes: scope name -> Scope object (its id)
    instances,       \* Scope.instances of every Scope object created so far
    nextObj,         \* the number of the next object a factory allocates
    down,            \* environment: (T, error) factories return an error
    hist,            \* per key, what its resolutions did since the key was
                     \* last registered (or the container cleared)
    last,            \* the operation just completed, its result and trace
    nOps,            \* the number of steps taken so far (see MaxOps)
    preClear,        \* the objects some Clear found in the singleton cache
    goroutines,      \* per goroutine, the call it is in and where it is in it
    mu,              \* Container.mu
    scopeMu,         \* Scope.mu of every Scope object created so far
    nCalls,          \* the number of calls goroutines have begun (see MaxCalls)
    wrote            \* the <<key, registration>> pairs goroutines have stored

vars == <<registrations, singletons, scopes, instances, nextObj, down, hist,
          last, nOps, preClear, goroutines, mu, scopeMu, nCalls, wrote>>

\* What the goroutines' calls in progress add to the state of the container.
conc == <<goroutines, mu, scopeMu, nCalls, wrote>>

Goroutines == 1..NumGoroutines

\* The Scope objects created so far: 1..Len(instances).
Created == 1..Len(instances)

\* ------------------------------------------------------- results and traces
Ok(v) == [kind |-> "ok", val |-> v, err |-> NoError]
Fail(err) == [kind |-> "err", val |-> Nil, err |-> err]
\* A Go panic: the call does not return.
Panic(msg) == [kind |-> "panic", val |-> Nil, err |-> [e |-> msg]]

\* The bool a call returns, as a value.
Bool(b) == [src |-> "bool", id |-> IF b THEN 1 ELSE 0]

\* One access to a map of the container or of a Scope.
Acc(op, map, key, scope, depth) ==
    [op |-> op, map |-> map, key |-> key, scope |-> scope, depth |-> depth]

\* What one resolve call did: appended to the trace when the call ends.
Event(key, scope, depth, res, invoked) ==
    [key |-> key, scope |-> scope, depth |-> depth, kind |-> res.kind,
     val |-> res.val, err |-> res.err, invoked |-> invoked]

\* The state a resolution works on: the registry and the environment, which
\* it only reads, the two caches, the allocator, and the trace (ev: one
\* event per resolve call, in order of return; acc: the map accesses made).
StartState ==
    [regs |-> registrations, down |-> down, sing |-> singletons,
     sinst |-> instances, next |-> nextObj, ev |-> <<>>, acc |-> {}]

Note(st, a) == [st EXCEPT !.acc = @ \cup {a}]
Ret(st, key, scope, depth, res, invoked) ==
    [st |-> [st EXCEPT !.ev = Append(@, Event(key, scope, depth, res, invoked))],
     res |-> res]


\* --------------------------------------------------------------- resolution
\* inChain that never finds the type.
inChainNever(chain, targetType) == FALSE

\* for _, t := range chain { if t == targetType ... }
inChain(chain, targetType) == \E i \in 1..Len(chain) : chain[i] = targetType

\* lookup that falls back on the unnamed registration of the type.
lookupOrUnnamed(st, key) ==
    IF key \in DOMAIN st.regs THEN {key}
    ELSE IF registrationKey(key[1], "") \in DOMAIN st.regs
    THEN {registrationKey(key[1], "")}
    ELSE {}

\* reg, exists := c.registrations[key]: the entry found, if any.
lookup(st, key) == IF key \in DOMAIN st.regs THEN {key} ELSE {}

\* singletonLookup that never finds the key.
singletonLookupMiss(st, reg, key) == FALSE

\* The singleton cache lookup of resolve: made only for a Singleton
\* registration; hit iff the key is in the map.
singletonLookup(st, reg, key) ==
    reg.lifetime = Singleton /\ key \in DOMAIN st.sing

\* scopeLookup that never finds the key.
scopeLookupMiss(st, reg, key, scope) == FALSE

\* The scope cache lookup of resolve (Scope.get): made only for a Scoped
\* registration resolved with a scope.
scopeLookup(st, reg, key, scope) ==
    reg.lifetime = Scoped /\ scope # NoScope /\ key \in DOMAIN st.sinst[scope]

\* cacheStore that also stores a Transient instance in the singleton cache.
cacheStoreTransient(st, reg, key, scope, depth, instance) ==
    IF reg.lifetime \in {Singleton, Transient}
    THEN Note([st EXCEPT !.sing = (key :> instance) @@ @],
              Acc("set", "singletons", key, NoScope, depth))
    ELSE IF reg.lifetime = Scoped /\ scope # NoScope
    THEN Note([st EXCEPT !.sinst[scope] = (key :> instance) @@ @],
              Acc("set", "instances", key, scope, depth))
    ELSE st

\* cacheStore that stores a Scoped instance resolved without a scope in the
\* singleton cache.
cacheStoreScopedNoScope(st, reg, key, scope, depth, instance) ==
    IF reg.lifetime = Singleton \/ (reg.lifetime = Scoped /\ scope = NoScope)
    THEN Note([st EXCEPT !.sing = (key :> instance) @@ @],
              Acc("set", "singletons", key, NoScope, depth))
    ELSE IF reg.lifetime = Scoped /\ scope # NoScope
    THEN Note([st EXCEPT !.sinst[scope] = (key :> instance) @@ @],
              Acc("set", "instances", key, scope, depth))
    ELSE st

\* cacheStore that files a singleton under its type alone.
cacheStoreByType(st, reg, key, scope, depth, instance) ==
    IF reg.lifetime = Singleton
    THEN Note([st EXCEPT !.sing = (registrationKey(key[1], "") :> instance) @@ @],
              Acc("set", "singletons", registrationKey(key[1], ""), NoScope, depth))
    ELSE IF reg.lifetime = Scoped /\ scope # NoScope
    THEN Note([st EXCEPT !.sinst[scope] = (key :> instance) @@ @],
              Acc("set", "instances", key, scope, depth))
    ELSE st

\* cacheStore that keeps the entry the singleton cache already has.
cacheStoreKeepFirst(st, reg, key, scope, depth, instance) ==
    IF reg.lifetime = Singleton
    THEN Note([st EXCEPT !.sing = @ @@ (key :> instance)],
              Acc("set", "singletons", key, NoScope, depth))
    ELSE IF reg.lifetime = Scoped /\ scope # NoScope
    THEN Note([st EXCEPT !.sinst[scope] = (key :> instance) @@ @],
              Acc("set", "instances", key, scope, depth))
    ELSE st

\* cacheStore that also files a Scoped instance in the singleton cache.
cacheStoreScopedAlso(st, reg, key, scope, depth, instance) ==
    IF reg.lifetime = Singleton
    THEN Note([st EXCEPT !.sing = (key :> instance) @@ @],
              Acc("set", "singletons", key, NoScope, depth))
    ELSE IF reg.lifetime = Scoped /\ scope # NoScope
    THEN Note(Note([st EXCEPT !.sinst[scope] = (key :> instance) @@ @,
                              !.sing = (key :> instance) @@ @],
                   Acc("set", "instances", key, scope, depth)),
              Acc("set", "singletons", key, NoScope, depth))
    ELSE st

\* "Cache based on lifetime": the switch that ends resolve (Scope.set for
\* a Scoped registration resolved with a scope).
cacheStore(st, reg, key, scope, depth, instance) ==
    IF reg.lifetime = Singleton
    THEN Note([st EXCEPT !.sing = (key :> instance) @@ @],
              Acc("set", "singletons", key, NoScope, depth))
    ELSE IF reg.lifetime = Scoped /\ scope # NoScope
    THEN Note([st EXCEPT !.sinst[scope] = (key :> instance) @@ @],
              Acc("set", "instances", key, scope, depth))
    ELSE st

\* factoryValue.Call(args) and the handling of its results.  reflect panics
\* on a zero Value argument (a nil interface value resolved for a
\* parameter).  RegisterType's closure panics in its type assertion when
\* *implType does not implement the interface.
callFactory(st, factory, args) ==
    IF \E i \in 1..Len(args) : args[i] = Nil
    THEN [st |-> st, res |-> Panic("reflect: Call using zero Value argument"),
          called |-> FALSE]
    ELSE IF factory.new # "" /\ ~Implements(factory.new, factory.out[1])
    THEN [st |-> st, res |-> Panic("interface conversion"), called |-> TRUE]
    ELSE IF Len(factory.out) = 0
    THEN [st |-> st,
          res |-> Fail(ErrInvalidFactory("func", "factory must return at least one value")),
          called |-> TRUE]
    ELSE IF Len(factory.out) = 2 /\ st.down
    THEN [st |-> st, res |-> Fail(FactoryError), called |-> TRUE]
    ELSE [st |-> [st EXCEPT !.next = @ + 1], res |-> Ok(Made(st.next)),
          called |-> TRUE]

\* failureStore that caches the nil instance of a failed invokeFactory, as
\* a cache switch placed before the error check would.
failureStoreNil(st, reg, key, scope, depth) ==
    cacheStore(st, reg, key, scope, depth, Nil)

\* What resolve stores when invokeFactory fails: nothing, it returns before
\* the cache switch.
failureStore(st, reg, key, scope, depth) == st

\* wrapFailure that keeps the innermost error only.
wrapFailureFlat(targetType, cause) ==
    ErrResolutionFailed(targetType, RootCause(cause))

\* wrapFailure that hands the cause on as it is.
wrapFailureNot(targetType, cause) == cause

\* How resolve reports a failure of invokeFactory.
wrapFailure(targetType, cause) == ErrResolutionFailed(targetType, cause)

\* precheck that looks for a cycle before it looks the key up.
precheckCycleFirst(st, key, chain) ==
    IF inChain(chain, key[1])
    THEN ErrCircularDependency(Append(chain, key[1]))
    ELSE IF lookup(st, key) = {}
    THEN ErrNotRegistered(key[1])
    ELSE NoError

\* The two checks resolve starts with, in the order of the code: the key
\* has a registration, and its type is not on the chain.
precheck(st, key, chain) ==
    IF lookup(st, key) = {}
    THEN ErrNotRegistered(key[1])
    ELSE IF inChain(chain, key[1])
    THEN ErrCircularDependency(Append(chain, key[1]))
    ELSE NoError

RECURSIVE resolve(_, _, _, _, _, _)
RECURSIVE resolveParams(_, _, _, _, _, _, _)

\* paramScope that resolves the parameters without the scope.
paramScopeNone(scope) == NoScope

\* The scope invokeFactory hands to the resolution of a parameter: the one
\* it was given.
paramScope(scope) == scope

\* paramChain that adds every type the call has resolved so far, as one
\* list of visited types kept for the whole call would.
paramChainVisited(st, chain) ==
    chain \o [i \in 1..Len(st.ev) |-> st.ev[i].key[1]]

\* The chain invokeFactory hands to the resolution of a parameter: the one
\* it was given, which ends with the type whose factory it is.
paramChain(st, chain) == chain

\* paramFailed that lets every failure pass.
paramFailedNever(r) == FALSE

\* if err != nil { return nil, err } after the resolution of a parameter.
paramFailed(r) == r.res.kind # "ok"

\* invokeFactory: the parameters are resolved in order, unnamed, with the
\* caller's scope and chain; the first failure is returned as it is.
\* reflect.ValueOf(factory).Type() panics for a nil factory.
invokeFactory(st, factory, scope, chain, depth) ==
    IF factory.kind # "func"
    THEN [st |-> st, res |-> Panic("reflect: call of Value.Type on zero Value"),
          called |-> FALSE]
    ELSE resolveParams(st, factory, scope, chain, depth, 1, <<>>)

\* The parameter loop of invokeFactory from parameter i on.
resolveParams(st, factory, scope, chain, depth, i, args) ==
    IF i > Len(factory.in)
    THEN callFactory(st, factory, args)
    ELSE LET r == resolve(st, factory.in[i], "", paramScope(scope),
                          paramChain(st, chain), depth + 1)
         IN  IF paramFailed(r)
             THEN [st |-> r.st, res |-> r.res, called |-> FALSE]
             ELSE resolveParams(r.st, factory, scope, chain, depth, i + 1,
                                Append(args, r.res.val))

\* Container.resolve.
resolve(st, targetType, name, scope, chain, depth) ==
    LET key == registrationKey(targetType, name)
        st1 == Note(st, Acc("get", "registrations", key, NoScope, depth))
    IN
    IF precheck(st1, key, chain) # NoError
    THEN Ret(st1, key, scope, depth, Fail(precheck(st1, key, chain)), FALSE)
    ELSE
    LET reg == st1.regs[CHOOSE k \in lookup(st1, key) : TRUE]
        chain2 == Append(chain, targetType)
    IN
    IF reg.instance # Nil
    THEN Ret(st1, key, scope, depth, Ok(reg.instance), FALSE)
    ELSE
    LET st2 == IF reg.lifetime = Singleton
               THEN Note(st1, Acc("get", "singletons", key, NoScope, depth))
               ELSE st1
    IN
    IF singletonLookup(st2, reg, key)
    THEN Ret(st2, key, scope, depth, Ok(st2.sing[key]), FALSE)
    ELSE
    LET st3 == IF reg.lifetime = Scoped /\ scope # NoScope
               THEN Note(st2, Acc("get", "instances", key, scope, depth))
               ELSE st2
    IN
    IF scopeLookup(st3, reg, key, scope)
    THEN Ret(st3, key, scope, depth, Ok(st3.sinst[scope][key]), FALSE)
    ELSE
    LET f == invokeFactory(st3, reg.factory, scope, chain2, depth) IN
    IF f.res.kind = "panic"
    THEN Ret(f.st, key, scope, depth, f.res, f.called)
    ELSE IF f.res.kind = "err"
    THEN Ret(failureStore(f.st, reg, key, scope, depth), key, scope, depth,
             Fail(wrapFailure(targetType, f.res.err)), f.called)
    ELSE Ret(cacheStore(f.st, reg, key, scope, depth, f.res.val),
             key, scope, depth, f.res, f.called)

\* result.(T) in ResolveNamed and ResolveInScope: the assertion panics on a
\* nil interface value.
typeAssert(r) ==
    IF r.res.kind = "ok" /\ r.res.val = Nil
    THEN [st |-> r.st, res |-> Panic("interface conversion: interface is nil")]
    ELSE r

\* ResolveNamed[T](c, name); Resolve[T](c) is ResolveNamed[T](c, "").
ResolveNamed(targetType, name) ==
    typeAssert(resolve(StartState, targetType, name, NoScope, <<>>, 0))

\* ResolveInScope[T](c, scope)
ResolveInScope(targetType, scope) ==
    typeAssert(resolve(StartState, targetType, "", scope, <<>>, 0))

\* panic(err) in MustResolve and MustResolveNamed: an error returned by the
\* resolution becomes the value of the panic; anything else is handed on.
panicOnError(r) ==
    IF r.res.kind = "err"
    THEN [st |-> r.st, res |-> [kind |-> "panic", val |-> Nil, err |-> r.res.err]]
    ELSE r

\* MustResolveNamed[T](c, name)
MustResolveNamed(targetType, name) == panicOnError(ResolveNamed(targetType, name))

\* MustResolve[T](c)
MustResolve(targetType) == panicOnError(ResolveNamed(targetType, ""))

\* HasNamed that finds the type under any name.
HasNamedAnyName(targetType, name) ==
    \E n \in Names : registrationKey(targetType, n) \in DOMAIN registrations

\* HasNamed[T](c, name): the key has an entry in the registry.
HasNamed(targetType, name) ==
    registrationKey(targetType, name) \in DOMAIN registrations

\* Has[T](c) is HasNamed[T](c, "").
Has(targetType) == HasNamed(targetType, "")


\* ------------------------------------------------------------------ history
\* Some cache holds an entry for the key.
StaleSingleton(key) == key \in DOMAIN singletons
StaleScopes(key) == {s \in Created : key \in DOMAIN instances[s]}

\* The record kept per key while the key stays registered in one way (kind:
\* the lifetime of a factory registration, "instance" for RegisterInstance,
\* "none" for no registration): n resolutions of the key returned a value,
\* got holds the <<scope, object>> pairs returned, calls[s] counts the calls
\* of the key's factory made by resolutions with scope s, fails counts the
\* resolutions that returned no value; staleSing and staleScopes tell which
\* caches held an entry for the key when the record was started.
FreshHist(kind, staleSing, staleScopes) ==
    [kind |-> kind, n |-> 0, got |-> {}, calls |-> [s \in 0..MaxScopes |-> 0],
     fails |-> 0, staleSing |-> staleSing, staleScopes |-> staleScopes]

\* The record of key after a registration of the given kind: a factory
\* registration with the lifetime the key already had continues the record.
Reregistered(key, kind) ==
    IF kind # "instance" /\ hist[key].kind = kind
    THEN hist
    ELSE [hist EXCEPT ![key] =
             FreshHist(kind, StaleSingleton(key), StaleScopes(key))]

RecordEvent(h, e) ==
    [h EXCEPT
       ![e.key].n = IF e.kind = "ok" THEN @ + 1 ELSE @,
       ![e.key].got = IF e.kind = "ok" THEN @ \cup {<<e.scope, e.val>>} ELSE @,
       ![e.key].calls[e.scope] = IF e.invoked THEN @ + 1 ELSE @,
       ![e.key].fails = IF e.kind = "ok" THEN @ ELSE @ + 1]

RECURSIVE RecordEvents(_, _)
RecordEvents(h, ev) ==
    IF ev = <<>> THEN h
    ELSE RecordEvents(RecordEvent(h, Head(ev)), Tail(ev))

\* The record of a completed operation: arg is the factory, instance or
\* implementation type handed to a registration.
Done(op, key, arg, scope, opts, res, ev, acc) ==
    [op |-> op, key |-> key, arg |-> arg, scope |-> scope, opts |-> opts,
     res |-> res, ev |-> ev, acc |-> acc]

\* ------------------------------------------------------------- sync.RWMutex
\* A sync.RWMutex: the goroutines holding it for reading, the one holding it
\* for writing (0: none), and the ones blocked in Lock.  A blocked Lock
\* keeps new readers out.
NewMutex == [readers |-> {}, writer |-> 0, waiting |-> {}]

\* canRLock that lets a reader in whoever holds the mutex.
canRLockAlways(m) == TRUE

canRLock(m) == m.writer = 0 /\ m.waiting = {}
RLock(m, g) == [m EXCEPT !.readers = @ \cup {g}]
RUnlock(m, g) == [m EXCEPT !.readers = @ \ {g}]

\* Lock is called (LockWait) and returns (Lock) once canLock holds.
LockWait(m, g) == [m EXCEPT !.waiting = @ \cup {g}]

\* canLock that lets a writer in whoever holds the mutex.
canLockAlways(m) == TRUE

canLock(m) == m.writer = 0 /\ m.readers = {}
Lock(m, g) == [m EXCEPT !.writer = g, !.waiting = @ \ {g}]
Unlock(m, g) == [m EXCEPT !.writer = 0]

\* The goroutine holds the mutex, or is blocked in Lock.
Holds(m, g) == g \in m.readers \/ m.writer = g
Waits(m, g) == g \in m.waiting

\* --------------------------------------------------------------- goroutines
\* A call of the package's API by a goroutine.
Call(op, key, arg, scope, opts) ==
    [op |-> op, key |-> key, arg |-> arg, scope |-> scope, opts |-> opts]
NoCall == Call("", registrationKey("", ""), Nil, NoScope, <<>>)

\* One activation of Container.resolve: its arguments (key, chain), what
\* it read from the registry (exists, reg) and from a cache (hit, val; val
\* is also the instance its factory returned), where invokeFactory's
\* parameter loop stands (i, args), and whether it has called its factory.
NoReg == [targetType |-> "", implType |-> "", factory |-> NilFactory,
          lifetime |-> Transient, instance |-> Nil, name |-> ""]
Frame(key, chain) ==
    [key |-> key, chain |-> chain, exists |-> FALSE, reg |-> NoReg,
     hit |-> FALSE, val |-> Nil, i |-> 1, args |-> <<>>, called |-> FALSE]

\* A goroutine: pc is where it stands in its call ("idle": between calls),
\* stack the activations of resolve, ev the events of the activations that
\* have returned, res what the call returns; began is the singleton cache
\* as it was when the call began, and racers the goroutines then in a call
\* that began without an entry for this call's key.
IdleGoroutine ==
    [pc |-> "idle", call |-> NoCall, stack |-> <<>>, ev |-> <<>>,
     res |-> Ok(Nil), began |-> EmptyMap, racers |-> {}]

Init ==
    /\ registrations = EmptyMap
    /\ singletons = EmptyMap
    /\ scopes = EmptyMap
    /\ instances = <<>>
    /\ nextObj = 1
    /\ down = FALSE
    /\ hist = [k \in Keys |-> FreshHist("none", FALSE, {})]
    /\ last = Done("New", registrationKey("", ""), Nil, NoScope, <<>>, Ok(Nil), <<>>, {})
    /\ nOps = 0
    /\ preClear = {}
    /\ goroutines = [g \in Goroutines |-> IdleGoroutine]
    /\ mu = NewMutex
    /\ scopeMu = <<>>
    /\ nCalls = 0
    /\ wrote = {}

\* Register that keeps the pre-built instance of the registration it
\* replaces.
RegisterMerge(targetType, factory, opts) ==
    LET reg == ApplyOptions(NewFactoryRegistration(targetType, factory), opts)
        err == validateFactory(targetType, factory)
        key == registrationKey(targetType, reg.name)
        old == IF key \in DOMAIN registrations
               THEN registrations[key].instance ELSE Nil
    IN
    /\ nOps < MaxOps
    /\ nOps' = nOps + 1
    /\ IF err # NoError
       THEN /\ last' = Done("Register", key, factory, NoScope, opts, Fail(err), <<>>, {})
            /\ UNCHANGED <<registrations, hist>>
       ELSE /\ registrations' = (key :> [reg EXCEPT !.instance = old]) @@ registrations
            /\ hist' = Reregistered(key, reg.lifetime)
            /\ last' = Done("Register", key, factory, NoScope, opts, Ok(Nil), <<>>, {})
    /\ UNCHANGED <<singletons, scopes, instances, nextObj, down, preClear>>
    /\ UNCHANGED conc

\* Register[T](c, factory, opts...)
Register(targetType, factory, opts) ==
    LET reg == ApplyOptions(NewFactoryRegistration(targetType, factory), opts)
        err == validateFactory(targetType, factory)
        key == registrationKey(targetType, reg.name)
    IN
    /\ nOps < MaxOps
    /\ nOps' = nOps + 1
    /\ IF err # NoError
       THEN /\ last' = Done("Register", key, factory, NoScope, opts, Fail(err), <<>>, {})
            /\ UNCHANGED <<registrations, hist>>
       ELSE /\ registrations' = (key :> reg) @@ registrations
            /\ hist' = Reregistered(key, reg.lifetime)
            /\ last' = Done("Register", key, factory, NoScope, opts, Ok(Nil), <<>>, {})
    /\ UNCHANGED <<singletons, scopes, instances, nextObj, down, preClear>>
    /\ UNCHANGED conc

\* RegisterInstance[T](c, instance, opts...)
RegisterInstance(targetType, instance, opts) ==
    LET reg == ApplyOptions(NewInstanceRegistration(targetType, instance), opts)
        key == registrationKey(targetType, reg.name)
    IN
    /\ nOps < MaxOps
    /\ nOps' = nOps + 1
    /\ registrations' = (key :> reg) @@ registrations
    /\ singletons' = (key :> instance) @@ singletons
    /\ hist' = Reregistered(key, "instance")
    /\ last' = Done("RegisterInstance", key, instance, NoScope, opts, Ok(Nil), <<>>, {})
    /\ UNCHANGED <<scopes, instances, nextObj, down, preClear>>
    /\ UNCHANGED conc

\* RegisterType that drops the instance cached for the key.
RegisterTypeDropCache(ifaceType, implType, opts) ==
    LET reg == ApplyOptions(NewTypeRegistration(ifaceType, implType), opts)
        key == registrationKey(ifaceType, reg.name)
    IN
    /\ nOps < MaxOps
    /\ nOps' = nOps + 1
    /\ registrations' = (key :> reg) @@ registrations
    /\ singletons' = [k \in DOMAIN singletons \ {key} |-> singletons[k]]
    /\ hist' = Reregistered(key, reg.lifetime)
    /\ last' = Done("RegisterType", key, implType, NoScope, opts, Ok(Nil), <<>>, {})
    /\ UNCHANGED <<scopes, instances, nextObj, down, preClear>>
    /\ UNCHANGED conc

\* RegisterType[TInterface, TImpl](c, opts...)
RegisterType(ifaceType, implType, opts) ==
    LET reg == ApplyOptions(NewTypeRegistration(ifaceType, implType), opts)
        key == registrationKey(ifaceType, reg.name)
    IN
    /\ nOps < MaxOps
    /\ nOps' = nOps + 1
    /\ registrations' = (key :> reg) @@ registrations
    /\ hist' = Reregistered(key, reg.lifetime)
    /\ last' = Done("RegisterType", key, implType, NoScope, opts, Ok(Nil), <<>>, {})
    /\ UNCHANGED <<singletons, scopes, instances, nextObj, down, preClear>>
    /\ UNCHANGED conc

\* The effect of a completed resolution r on the container and the history.
Resolved(op, key, scope, r) ==
    /\ nOps < MaxOps
    /\ nOps' = nOps + 1
    /\ singletons' = r.st.sing
    /\ instances' = r.st.sinst
    /\ nextObj' = r.st.next
    /\ hist' = RecordEvents(hist, r.st.ev)
    /\ last' = Done(op, key, Nil, scope, <<>>, r.res, r.st.ev, r.st.acc)
    /\ UNCHANGED <<registrations, scopes, down, preClear>>
    /\ UNCHANGED conc

\* A caller runs ResolveNamed[T](c, name) (Resolve[T](c) when name is "").
DoResolveNamed(targetType, name) ==
    Resolved("ResolveNamed", registrationKey(targetType, name), NoScope,
             ResolveNamed(targetType, name))

\* A caller runs ResolveInScope[T](c, scope) with nil or a Scope it was given.
DoResolveInScope(targetType, scope) ==
    Resolved("ResolveInScope", registrationKey(targetType, ""), scope,
             ResolveInScope(targetType, scope))

\* A caller runs MustResolve[T](c).
DoMustResolve(targetType) ==
    Resolved("MustResolve", registrationKey(targetType, ""), NoScope,
             MustResolve(targetType))

\* A caller runs MustResolveNamed[T](c, name).
DoMustResolveNamed(targetType, name) ==
    Resolved("MustResolveNamed", registrationKey(targetType, name), NoScope,
             MustResolveNamed(targetType, name))

\* The effect of a completed Has or HasNamed call that returned exists.
Checked(op, key, exists) ==
    /\ nOps < MaxOps
    /\ nOps' = nOps + 1
    /\ last' = Done(op, key, Nil, NoScope, <<>>, Ok(Bool(exists)), <<>>, {})
    /\ UNCHANGED <<registrations, singletons, scopes, instances, nextObj, down,
                   hist, preClear>>
    /\ UNCHANGED conc

\* A caller runs Has[T](c).
DoHas(targetType) ==
    Checked("Has", registrationKey(targetType, ""), Has(targetType))

\* A caller runs HasNamed[T](c, name).
DoHasNamed(targetType, name) ==
    Checked("HasNamed", registrationKey(targetType, name), HasNamed(targetType, name))

\* CreateScope that hands the cache of the scope it replaces to the new one.
CreateScopeKeepCache(name) ==
    /\ Len(instances) < MaxScopes
    /\ instances' = Append(instances, IF name \in DOMAIN scopes
                                      THEN instances[scopes[name]] ELSE EmptyMap)
    /\ scopes' = (name :> (Len(instances) + 1)) @@ scopes
    /\ last' = Done("CreateScope", registrationKey("", name), Nil, Len(instances) + 1,
                    <<>>, Ok(Nil), <<>>, {})
    /\ scopeMu' = Append(scopeMu, NewMutex)
    /\ UNCHANGED <<registrations, singletons, nextObj, down, hist, nOps,
                   preClear, goroutines, mu, nCalls, wrote>>

\* Container.CreateScope(name): newScope and the entry in Container.scopes.
CreateScope(name) ==
    /\ Len(instances) < MaxScopes
    /\ instances' = Append(instances, EmptyMap)
    /\ scopes' = (name :> (Len(instances) + 1)) @@ scopes
    /\ last' = Done("CreateScope", registrationKey("", name), Nil, Len(instances) + 1,
                    <<>>, Ok(Nil), <<>>, {})
    /\ scopeMu' = Append(scopeMu, NewMutex)
    /\ UNCHANGED <<registrations, singletons, nextObj, down, hist, nOps,
                   preClear, goroutines, mu, nCalls, wrote>>

\* Clear that forgets to empty the singleton cache.
ClearKeepSingletons ==
    /\ nOps < MaxOps
    /\ nOps' = nOps + 1
    /\ registrations' = EmptyMap
    /\ scopes' = EmptyMap
    /\ hist' = [k \in Keys |-> FreshHist("none", FALSE, {})]
    /\ last' = Done("Clear", registrationKey("", ""), Nil, NoScope, <<>>, Ok(Nil), <<>>, {})
    /\ preClear' = preClear \cup {singletons[k] : k \in DOMAIN singletons}
    /\ UNCHANGED <<singletons, instances, nextObj, down>>
    /\ UNCHANGED conc

\* Clear that also empties the caches of the Scope objects created so far.
ClearWithScopeCaches ==
    /\ nOps < MaxOps
    /\ nOps' = nOps + 1
    /\ registrations' = EmptyMap
    /\ singletons' = EmptyMap
    /\ scopes' = EmptyMap
    /\ instances' = [s \in Created |-> EmptyMap]
    /\ hist' = [k \in Keys |-> FreshHist("none", FALSE, {})]
    /\ last' = Done("Clear", registrationKey("", ""), Nil, NoScope, <<>>, Ok(Nil), <<>>, {})
    /\ preClear' = preClear \cup {singletons[k] : k \in DOMAIN singletons}
    /\ UNCHANGED <<nextObj, down>>
    /\ UNCHANGED conc

\* Container.Clear(): the three maps are replaced by empty ones; the Scope
\* objects already handed out keep their instances.
Clear ==
    /\ nOps < MaxOps
    /\ nOps' = nOps + 1
    /\ registrations' = EmptyMap
    /\ singletons' = EmptyMap
    /\ scopes' = EmptyMap
    /\ hist' = [k \in Keys |-> FreshHist("none", FALSE, {})]
    /\ last' = Done("Clear", registrationKey("", ""), Nil, NoScope, <<>>, Ok(Nil), <<>>, {})
    /\ preClear' = preClear \cup {singletons[k] : k \in DOMAIN singletons}
    /\ UNCHANGED <<instances, nextObj, down>>
    /\ UNCHANGED conc

\* The environment changes: what the (T, error) factories depend on goes
\* down or comes back.
SetDown ==
    /\ nOps < MaxOps
    /\ nOps' = nOps + 1
    /\ down' = ~down
    /\ last' = Done("SetDown", registrationKey("", ""), Nil, NoScope, <<>>, Ok(Nil), <<>>, {})
    /\ UNCHANGED <<registrations, singletons, scopes, instances, nextObj, hist,
                   preClear>>
    /\ UNCHANGED conc

\* ------------------------------------------------------- goroutine steps
\* The calls of concurrent goroutines, a step being what a goroutine does
\* from one operation on a mutex to the next.  The atomic actions above are
\* the same calls made while no other call is in progress.
AllIdle == \A g \in Goroutines : goroutines[g].pc = "idle"

\* A goroutine that is between calls may begin one.  Goroutines between
\* calls are alike: the one with the lowest number begins.
CanBegin(g) ==
    /\ goroutines[g].pc = "idle"
    /\ nCalls < MaxCalls
    /\ \A h \in Goroutines : h < g => goroutines[h].pc # "idle"

Top(gr) == gr.stack[Len(gr.stack)]
SetTop(gr, frame) == [gr EXCEPT !.stack[Len(gr.stack)] = frame]

\* The goroutine begins a call: the cache and the calls in progress that
\* began without an entry for the key are noted.
Begun(g, call, pc, stack) ==
    [goroutines[g] EXCEPT
       !.pc = pc, !.call = call, !.stack = stack,
       !.began = singletons,
       !.racers = {h \in Goroutines \ {g} :
                     /\ goroutines[h].pc # "idle"
                     /\ call.key \notin DOMAIN goroutines[h].began}]

\* The call returns res.
CallReturns(gr, res) == [gr EXCEPT !.pc = "idle", !.stack = <<>>, !.res = res]

\* The goroutine's record after its step is gr, and the history h: a call
\* that returns becomes the operation just completed and its events are
\* recorded; a call that begins is counted.
Stepped(g, gr, h) ==
    /\ nCalls' = IF goroutines[g].pc = "idle" THEN nCalls + 1 ELSE nCalls
    /\ IF gr.pc = "idle"
       THEN /\ goroutines' = [goroutines EXCEPT ![g] = IdleGoroutine]
            /\ last' = Done(gr.call.op, gr.call.key, gr.call.arg, gr.call.scope,
                            gr.call.opts, gr.res, gr.ev, {})
            /\ hist' = RecordEvents(h, gr.ev)
       ELSE /\ goroutines' = [goroutines EXCEPT ![g] = gr]
            /\ hist' = h
            /\ UNCHANGED last

RECURSIVE Unwind(_, _)
RECURSIVE Advance(_)

\* invokeFactory of the top activation goes on: reflect.ValueOf(factory)
\* .Type() panics for a nil factory; the next parameter is resolved by a new
\* activation (unnamed, with the caller's chain); with all parameters
\* resolved the factory is called next.
Advance(gr) ==
    LET top == Top(gr)
        factory == top.reg.factory
    IN  IF factory.kind # "func"
        THEN Unwind(gr, Panic("reflect: call of Value.Type on zero Value"))
        ELSE IF top.i <= Len(factory.in)
        THEN [gr EXCEPT
                !.pc = "lookup",
                !.stack = Append(@, Frame(registrationKey(factory.in[top.i], ""),
                                          Append(top.chain, top.key[1])))]
        ELSE [gr EXCEPT !.pc = "call"]

\* The top activation of resolve returns res: to ResolveNamed or
\* ResolveInScope (result.(T)), or to the parameter loop of the activation
\* below, which goes on with the next parameter or returns the error, which
\* its resolve wraps.  A panic unwinds the whole call.
Unwind(gr, res) ==
    LET rest == SubSeq(gr.stack, 1, Len(gr.stack) - 1)
        top == Top(gr)
        gr2 == [gr EXCEPT
                  !.stack = rest,
                  !.ev = Append(@, Event(top.key, gr.call.scope, Len(rest), res,
                                         top.called))]
    IN
    IF rest = <<>>
    THEN CallReturns(gr2, typeAssert([st |-> StartState, res |-> res]).res)
    ELSE LET parent == rest[Len(rest)] IN
         IF res.kind = "ok"
         THEN Advance([gr2 EXCEPT
                         !.stack[Len(rest)].args = Append(@, res.val),
                         !.stack[Len(rest)].i = @ + 1])
         ELSE IF res.kind = "panic"
         THEN Unwind(gr2, res)
         ELSE Unwind(gr2, Fail(wrapFailure(parent.key[1], res.err)))

\* What a step leaves alone.
ContainerUnchanged ==
    UNCHANGED <<registrations, singletons, scopes, instances, nextObj>>
SequentialUnchanged == UNCHANGED <<down, nOps>>

\* newChain that takes up the chain of a resolution another goroutine is
\* in, as a chain kept in the container would.
newChainShared(g) ==
    IF \E h \in Goroutines \ {g} : goroutines[h].stack # <<>>
    THEN LET h == CHOOSE h \in Goroutines \ {g} : goroutines[h].stack # <<>>
         IN  Append(Top(goroutines[h]).chain, Top(goroutines[h]).key[1])
    ELSE <<>>

\* make([]reflect.Type, 0): the chain a top-level call of resolve starts
\* with is a new, empty one.
newChain(g) == <<>>

\* The goroutine calls ResolveNamed[T](c, name) or, with a scope or
\* inScope, ResolveInScope[T](c, scope).
BeginResolve(g, op, targetType, name, scope) ==
    LET key == registrationKey(targetType, name) IN
    /\ CanBegin(g)
    /\ Stepped(g, Begun(g, Call(op, key, Nil, scope, <<>>), "lookup",
                        <<Frame(key, newChain(g))>>), hist)
    /\ ContainerUnchanged /\ SequentialUnchanged
    /\ UNCHANGED <<preClear, wrote, mu, scopeMu>>

\* resolve: c.mu.RLock(); reg, exists := c.registrations[key]
ResolveRLock(g) ==
    LET gr == goroutines[g]
        top == Top(gr)
        found == lookup(StartState, top.key)
    IN
    /\ gr.pc = "lookup"
    /\ canRLock(mu)
    /\ mu' = RLock(mu, g)
    /\ Stepped(g, [SetTop(gr, [top EXCEPT
                                 !.exists = found # {},
                                 !.reg = IF found = {} THEN NoReg
                                         ELSE registrations[CHOOSE k \in found : TRUE]])
                     EXCEPT !.pc = "lookupUnlock"], hist)
    /\ ContainerUnchanged /\ SequentialUnchanged
    /\ UNCHANGED <<preClear, wrote, scopeMu>>

\* resolve: c.mu.RUnlock(), the checks that need no lock, up to the next
\* lock operation.
ResolveRUnlock(g) ==
    LET gr == goroutines[g]
        top == Top(gr)
        targetType == top.key[1]
    IN
    /\ gr.pc = "lookupUnlock"
    /\ mu' = RUnlock(mu, g)
    /\ Stepped(g,
          IF ~top.exists
          THEN Unwind(gr, Fail(ErrNotRegistered(targetType)))
          ELSE IF inChain(top.chain, targetType)
          THEN Unwind(gr, Fail(ErrCircularDependency(Append(top.chain, targetType))))
          ELSE IF top.reg.instance # Nil
          THEN Unwind(gr, Ok(top.reg.instance))
          ELSE IF top.reg.lifetime = Singleton
          THEN [gr EXCEPT !.pc = "sing"]
          ELSE IF top.reg.lifetime = Scoped /\ gr.call.scope # NoScope
          THEN [gr EXCEPT !.pc = "scopeGet"]
          ELSE Advance(gr),
          hist)
    /\ ContainerUnchanged /\ SequentialUnchanged
    /\ UNCHANGED <<preClear, wrote, scopeMu>>

\* resolve: c.mu.RLock(); instance, ok := c.singletons[key]
SingletonRLock(g) ==
    LET gr == goroutines[g]
        top == Top(gr)
        hit == singletonLookup(StartState, top.reg, top.key)
    IN
    /\ gr.pc = "sing"
    /\ canRLock(mu)
    /\ mu' = RLock(mu, g)
    /\ Stepped(g, [SetTop(gr, [top EXCEPT
                                 !.hit = hit,
                                 !.val = IF hit THEN singletons[top.key] ELSE Nil])
                     EXCEPT !.pc = "singUnlock"], hist)
    /\ ContainerUnchanged /\ SequentialUnchanged
    /\ UNCHANGED <<preClear, wrote, scopeMu>>

\* The c.mu.RUnlock() of the miss, forgotten.
RUnlockMissForgotten(m, g) == m

\* The c.mu.RUnlock() after the if of the singleton cache lookup.
RUnlockMiss(m, g) == RUnlock(m, g)

\* SingletonRUnlock that goes on to the factory although the lookup hit.
SingletonRUnlockIgnoreHit(g) ==
    LET gr == goroutines[g]
        top == Top(gr)
    IN
    /\ gr.pc = "singUnlock"
    /\ mu' = RUnlock(mu, g)
    /\ Stepped(g, Advance(gr), hist)
    /\ ContainerUnchanged /\ SequentialUnchanged
    /\ UNCHANGED <<preClear, wrote, scopeMu>>

\* resolve: c.mu.RUnlock() on either branch of the singleton cache lookup.
SingletonRUnlock(g) ==
    LET gr == goroutines[g]
        top == Top(gr)
    IN
    /\ gr.pc = "singUnlock"
    /\ mu' = IF top.hit THEN RUnlock(mu, g) ELSE RUnlockMiss(mu, g)
    /\ Stepped(g, IF top.hit THEN Unwind(gr, Ok(top.val)) ELSE Advance(gr), hist)
    /\ ContainerUnchanged /\ SequentialUnchanged
    /\ UNCHANGED <<preClear, wrote, scopeMu>>

\* Scope.get: s.mu.RLock(); instance, ok := s.instances[key]
ScopeGet(g) ==
    LET gr == goroutines[g]
        top == Top(gr)
        scope == gr.call.scope
        hit == scopeLookup(StartState, top.reg, top.key, scope)
    IN
    /\ gr.pc = "scopeGet"
    /\ canRLock(scopeMu[scope])
    /\ scopeMu' = [scopeMu EXCEPT ![scope] = RLock(@, g)]
    /\ Stepped(g, [SetTop(gr, [top EXCEPT
                                 !.hit = hit,
                                 !.val = IF hit THEN instances[scope][top.key] ELSE Nil])
                     EXCEPT !.pc = "scopeGetUnlock"], hist)
    /\ ContainerUnchanged /\ SequentialUnchanged
    /\ UNCHANGED <<preClear, wrote, mu>>

\* Scope.get: the deferred s.mu.RUnlock(), and resolve up to the next lock
\* operation.
ScopeGetUnlock(g) ==
    LET gr == goroutines[g]
        top == Top(gr)
    IN
    /\ gr.pc = "scopeGetUnlock"
    /\ scopeMu' = [scopeMu EXCEPT ![gr.call.scope] = RUnlock(@, g)]
    /\ Stepped(g, IF top.hit THEN Unwind(gr, Ok(top.val)) ELSE Advance(gr), hist)
    /\ ContainerUnchanged /\ SequentialUnchanged
    /\ UNCHANGED <<preClear, wrote, mu>>

\* invokeFactory: factoryValue.Call(args) and what resolve does with the
\* result, up to the Lock of the cache it stores the instance in.
CallFactory(g) ==
    LET gr == goroutines[g]
        top == Top(gr)
        scope == gr.call.scope
        f == callFactory(StartState, top.reg.factory, top.args)
        gr2 == SetTop(gr, [top EXCEPT !.called = f.called])
    IN
    /\ gr.pc = "call"
    /\ nextObj' = f.st.next
    /\ IF f.res.kind = "panic"
       THEN Stepped(g, Unwind(gr2, f.res), hist) /\ UNCHANGED <<mu, scopeMu>>
       ELSE IF f.res.kind = "err"
       THEN /\ Stepped(g, Unwind(gr2, Fail(wrapFailure(top.key[1], f.res.err))), hist)
            /\ UNCHANGED <<mu, scopeMu>>
       ELSE IF top.reg.lifetime = Singleton
       THEN /\ Stepped(g, [SetTop(gr2, [Top(gr2) EXCEPT !.val = f.res.val])
                             EXCEPT !.pc = "store"], hist)
            /\ mu' = LockWait(mu, g)
            /\ UNCHANGED scopeMu
       ELSE IF top.reg.lifetime = Scoped /\ scope # NoScope
       THEN /\ Stepped(g, [SetTop(gr2, [Top(gr2) EXCEPT !.val = f.res.val])
                             EXCEPT !.pc = "scopeSet"], hist)
            /\ scopeMu' = [scopeMu EXCEPT ![scope] = LockWait(@, g)]
            /\ UNCHANGED mu
       ELSE Stepped(g, Unwind(gr2, f.res), hist) /\ UNCHANGED <<mu, scopeMu>>
    /\ UNCHANGED <<registrations, singletons, scopes, instances>>
    /\ SequentialUnchanged
    /\ UNCHANGED <<preClear, wrote>>

\* resolve: c.mu.Lock() returns; c.singletons[key] = instance
SingletonLock(g) ==
    LET gr == goroutines[g]
        top == Top(gr)
    IN
    /\ gr.pc = "store"
    /\ canLock(mu)
    /\ mu' = Lock(mu, g)
    /\ singletons' = cacheStore(StartState, top.reg, top.key, gr.call.scope,
                                0, top.val).sing
    /\ Stepped(g, [gr EXCEPT !.pc = "storeUnlock"], hist)
    /\ UNCHANGED <<registrations, scopes, instances, nextObj>>
    /\ SequentialUnchanged
    /\ UNCHANGED <<preClear, wrote, scopeMu>>

\* resolve: c.mu.Unlock(); return instance, nil
SingletonUnlock(g) ==
    LET gr == goroutines[g] IN
    /\ gr.pc = "storeUnlock"
    /\ mu' = Unlock(mu, g)
    /\ Stepped(g, Unwind(gr, Ok(Top(gr).val)), hist)
    /\ ContainerUnchanged /\ SequentialUnchanged
    /\ UNCHANGED <<preClear, wrote, scopeMu>>

\* Scope.set: s.mu.Lock() returns; s.instances[key] = instance
ScopeSet(g) ==
    LET gr == goroutines[g]
        top == Top(gr)
        scope == gr.call.scope
    IN
    /\ gr.pc = "scopeSet"
    /\ canLock(scopeMu[scope])
    /\ scopeMu' = [scopeMu EXCEPT ![scope] = Lock(@, g)]
    /\ instances' = cacheStore(StartState, top.reg, top.key, scope, 0,
                               top.val).sinst
    /\ Stepped(g, [gr EXCEPT !.pc = "scopeSetUnlock"], hist)
    /\ UNCHANGED <<registrations, singletons, scopes, nextObj>>
    /\ SequentialUnchanged
    /\ UNCHANGED <<preClear, wrote, mu>>

\* Scope.set: the deferred s.mu.Unlock(); resolve returns instance, nil
ScopeSetUnlock(g) ==
    LET gr == goroutines[g] IN
    /\ gr.pc = "scopeSetUnlock"
    /\ scopeMu' = [scopeMu EXCEPT ![gr.call.scope] = Unlock(@, g)]
    /\ Stepped(g, Unwind(gr, Ok(Top(gr).val)), hist)
    /\ ContainerUnchanged /\ SequentialUnchanged
    /\ UNCHANGED <<preClear, wrote, mu>>

\* The goroutine calls Register[T](c, factory, opts...): the factory is
\* validated, then c.mu.Lock() is called.
BeginRegister(g, targetType, factory, opts) ==
    LET reg == ApplyOptions(NewFactoryRegistration(targetType, factory), opts)
        err == validateFactory(targetType, factory)
        key == registrationKey(targetType, reg.name)
        call == Call("Register", key, factory, NoScope, opts)
    IN
    /\ CanBegin(g)
    /\ IF err # NoError
       THEN /\ Stepped(g, CallReturns(Begun(g, call, "idle", <<>>), Fail(err)), hist)
            /\ UNCHANGED mu
       ELSE /\ Stepped(g, Begun(g, call, "write", <<>>), hist)
            /\ mu' = LockWait(mu, g)
    /\ ContainerUnchanged /\ SequentialUnchanged
    /\ UNCHANGED <<preClear, wrote, scopeMu>>

\* The goroutine calls RegisterInstance[T](c, instance, opts...).
BeginRegisterInstance(g, targetType, instance, opts) ==
    LET reg == ApplyOptions(NewInstanceRegistration(targetType, instance), opts)
        key == registrationKey(targetType, reg.name)
    IN
    /\ CanBegin(g)
    /\ Stepped(g, Begun(g, Call("RegisterInstance", key, instance, NoScope, opts),
                        "write", <<>>), hist)
    /\ mu' = LockWait(mu, g)
    /\ ContainerUnchanged /\ SequentialUnchanged
    /\ UNCHANGED <<preClear, wrote, scopeMu>>

\* The goroutine calls RegisterType[TInterface, TImpl](c, opts...).
BeginRegisterType(g, ifaceType, implType, opts) ==
    LET reg == ApplyOptions(NewTypeRegistration(ifaceType, implType), opts)
        key == registrationKey(ifaceType, reg.name)
    IN
    /\ CanBegin(g)
    /\ Stepped(g, Begun(g, Call("RegisterType", key, implType, NoScope, opts),
                        "write", <<>>), hist)
    /\ mu' = LockWait(mu, g)
    /\ ContainerUnchanged /\ SequentialUnchanged
    /\ UNCHANGED <<preClear, wrote, scopeMu>>

\* The Scope objects there will be when the CreateScope calls in progress
\* have returned.
ScopesBegun ==
    Len(instances)
      + Cardinality({g \in Goroutines : /\ goroutines[g].pc = "write"
                                        /\ goroutines[g].call.op = "CreateScope"})

\* The goroutine calls c.CreateScope(name).
BeginCreateScope(g, name) ==
    /\ CanBegin(g)
    /\ ScopesBegun < MaxScopes
    /\ Stepped(g, Begun(g, Call("CreateScope", registrationKey("", name), Nil,
                                NoScope, <<>>), "write", <<>>), hist)
    /\ mu' = LockWait(mu, g)
    /\ ContainerUnchanged /\ SequentialUnchanged
    /\ UNCHANGED <<preClear, wrote, scopeMu>>

\* The goroutine calls c.Clear().
BeginClear(g) ==
    /\ CanBegin(g)
    /\ Stepped(g, Begun(g, Call("Clear", registrationKey("", ""), Nil, NoScope,
                                <<>>), "write", <<>>), hist)
    /\ mu' = LockWait(mu, g)
    /\ ContainerUnchanged /\ SequentialUnchanged
    /\ UNCHANGED <<preClear, wrote, scopeMu>>

\* The registration a registering call has built.
RegistrationOf(call) ==
    ApplyOptions(IF call.op = "Register"
                 THEN NewFactoryRegistration(call.key[1], call.arg)
                 ELSE IF call.op = "RegisterInstance"
                 THEN NewInstanceRegistration(call.key[1], call.arg)
                 ELSE IF call.op = "RegisterType"
                 THEN NewTypeRegistration(call.key[1], call.arg)
                 ELSE NoReg,
                 call.opts)

\* c.mu.Lock() returns and the call writes the maps of the container.
ContainerLock(g) ==
    LET gr == goroutines[g]
        call == gr.call
        registers == call.op \in {"Register", "RegisterInstance", "RegisterType"}
        reg == RegistrationOf(call)
    IN
    /\ gr.pc = "write"
    /\ canLock(mu)
    /\ mu' = Lock(mu, g)
    /\ registrations' =
          IF registers THEN (call.key :> reg) @@ registrations
          ELSE IF call.op = "Clear" THEN EmptyMap
          ELSE registrations
    /\ singletons' = IF call.op = "Clear" THEN EmptyMap ELSE singletons
    /\ scopes' =
          IF call.op = "CreateScope"
          THEN (call.key[2] :> (Len(instances) + 1)) @@ scopes
          ELSE IF call.op = "Clear" THEN EmptyMap
          ELSE scopes
    /\ instances' =
          IF call.op = "CreateScope" THEN Append(instances, EmptyMap)
          ELSE instances
    /\ scopeMu' =
          IF call.op = "CreateScope" THEN Append(scopeMu, NewMutex)
          ELSE scopeMu
    /\ preClear' =
          IF call.op = "Clear"
          THEN preClear \cup {singletons[k] : k \in DOMAIN singletons}
          ELSE preClear
    /\ wrote' = IF registers THEN wrote \cup {<<call.key, reg>>} ELSE wrote
    /\ Stepped(g, [gr EXCEPT !.pc = IF call.op = "RegisterInstance"
                                    THEN "instance" ELSE "unlock"],
               IF call.op = "RegisterInstance"
               THEN Reregistered(call.key, "instance")
               ELSE IF registers THEN Reregistered(call.key, reg.lifetime)
               ELSE IF call.op = "Clear"
               THEN [k \in Keys |-> FreshHist("none", FALSE, {})]
               ELSE hist)
    /\ UNCHANGED nextObj
    /\ SequentialUnchanged

\* RegisterInstance: c.singletons[key] = instance, still under c.mu.
InstanceStore(g) ==
    LET gr == goroutines[g] IN
    /\ gr.pc = "instance"
    /\ mu.writer = g
    /\ singletons' = (gr.call.key :> gr.call.arg) @@ singletons
    /\ Stepped(g, [gr EXCEPT !.pc = "unlock"], hist)
    /\ UNCHANGED <<registrations, scopes, instances, nextObj>>
    /\ SequentialUnchanged
    /\ UNCHANGED <<preClear, wrote, mu, scopeMu>>

\* c.mu.Unlock() and the return of the call (CreateScope returns the Scope).
ContainerUnlock(g) ==
    LET gr == goroutines[g] IN
    /\ gr.pc = "unlock"
    /\ mu' = Unlock(mu, g)
    /\ Stepped(g, CallReturns(gr, Ok(Nil)), hist)
    /\ ContainerUnchanged /\ SequentialUnchanged
    /\ UNCHANGED <<preClear, wrote, scopeMu>>

\* The goroutine calls HasNamed[T](c, name) (Has[T](c) when name is "").
BeginHasNamed(g, targetType, name) ==
    /\ CanBegin(g)
    /\ Stepped(g, Begun(g, Call("HasNamed", registrationKey(targetType, name),
                                Nil, NoScope, <<>>), "has", <<>>), hist)
    /\ ContainerUnchanged /\ SequentialUnchanged
    /\ UNCHANGED <<preClear, wrote, mu, scopeMu>>

\* HasNamed: c.mu.RLock(); _, exists := c.registrations[key]
HasRLock(g) ==
    LET gr == goroutines[g] IN
    /\ gr.pc = "has"
    /\ canRLock(mu)
    /\ mu' = RLock(mu, g)
    /\ Stepped(g, [gr EXCEPT
                     !.pc = "hasUnlock",
                     !.res = Ok(Bool(HasNamed(gr.call.key[1], gr.call.key[2])))], hist)
    /\ ContainerUnchanged /\ SequentialUnchanged
    /\ UNCHANGED <<preClear, wrote, scopeMu>>

\* HasNamed: the deferred c.mu.RUnlock(); return exists
HasRUnlock(g) ==
    LET gr == goroutines[g] IN
    /\ gr.pc = "hasUnlock"
    /\ mu' = RUnlock(mu, g)
    /\ Stepped(g, CallReturns(gr, gr.res), hist)
    /\ ContainerUnchanged /\ SequentialUnchanged
    /\ UNCHANGED <<preClear, wrote, scopeMu>>

\* The next step of the call the goroutine is in.
Proceed(g) ==
    \/ ResolveRLock(g)
    \/ ResolveRUnlock(g)
    \/ SingletonRLock(g)
    \/ SingletonRUnlock(g)
    \/ ScopeGet(g)
    \/ ScopeGetUnlock(g)
    \/ CallFactory(g)
    \/ SingletonLock(g)
    \/ SingletonUnlock(g)
    \/ ScopeSet(g)
    \/ ScopeSetUnlock(g)
    \/ ContainerLock(g)
    \/ InstanceStore(g)
    \/ ContainerUnlock(g)
    \/ HasRLock(g)
    \/ HasRUnlock(g)

\* ------------------------------------------------------- specifications
\* Each specification runs the same operations of the one container; they
\* differ in the values the callers hand to them.

\* Lifetimes: a factory for A that can fail and a factory for B that takes
\* an A, registered unnamed with no lifetime option and with each lifetime,
\* resolved with Resolve and with ResolveInScope.
LifeRegs == {<<"A", Fn(<<>>, <<"A", "error">>)>>, <<"B", Fn(<<"A">>, <<"B">>)>>}
LifeOptions == {<<>>} \cup {<<WithLifetime(l)>> : l \in Lifetimes}

NextLife ==
    \/ \E r \in LifeRegs, o \in LifeOptions : Register(r[1], r[2], o)
    \/ \E t \in Types : DoResolveNamed(t, "")
    \/ \E t \in Types, s \in {NoScope} \cup Created : DoResolveInScope(t, s)
    \/ CreateScope("s")
    \/ Clear
    \/ SetDown

SpecLife == Init /\ [][NextLife]_vars

\* Pre-built instances: A is registered with RegisterInstance (a nil
\* interface value and two objects, with no lifetime option and with each
\* lifetime) or with a factory, B's factory takes an A.
InstRegs == {<<"A", Fn(<<>>, <<"A">>)>>, <<"B", Fn(<<"A">>, <<"B">>)>>}

NextInst ==
    \/ \E v \in InstanceValues, o \in LifeOptions : RegisterInstance("A", v, o)
    \/ \E r \in InstRegs : Register(r[1], r[2], <<>>)
    \/ \E t \in Types : DoResolveNamed(t, "")
    \/ \E t \in Types, s \in {NoScope} \cup Created : DoResolveInScope(t, s)
    \/ CreateScope("s")
    \/ Clear

SpecInst == Init /\ [][NextInst]_vars

\* Cycles: A's factory takes a B and B's factory takes an A; A can also be
\* registered with a factory without parameters or as a pre-built instance,
\* so that A can be cached before the cycle is registered.
CycleRegs ==
    {<<"A", Fn(<<"B">>, <<"A">>)>>, <<"B", Fn(<<"A">>, <<"B">>)>>,
     <<"A", Fn(<<>>, <<"A">>)>>}

NextCycle ==
    \/ \E r \in CycleRegs, o \in LifeOptions : Register(r[1], r[2], o)
    \/ RegisterInstance("A", Given(1), <<>>)
    \/ \E t \in Types : DoResolveNamed(t, "")
    \/ \E t \in Types, s \in Created : DoResolveInScope(t, s)
    \/ CreateScope("s")
    \/ Clear

SpecCycle == Init /\ [][NextCycle]_vars

\* Factory validation: every factory of the catalogue is registered for A,
\* a factory taking an A for B, with no option or as Singleton.
ValidOptions == {<<>>, <<AsSingleton>>}

NextValid ==
    \/ \E f \in Factories, o \in ValidOptions : Register("A", f, o)
    \/ Register("B", Fn(<<"A">>, <<"B">>), <<>>)
    \/ \E t \in Types : DoResolveNamed(t, "")
    \/ SetDown

SpecValid == Init /\ [][NextValid]_vars

\* Names: A is registered unnamed and under the names n and m, by Register
\* (as a Singleton whose factory takes a B, or under m with a factory that
\* takes an A), RegisterInstance and RegisterType; B is an unnamed
\* Singleton; every key is resolved.
NameRegs ==
    {<<Fn(<<"B">>, <<"A">>), <<AsSingleton>>>>,
     <<Fn(<<"B">>, <<"A">>), <<AsSingleton, WithName("n")>>>>,
     <<Fn(<<"A">>, <<"A">>), <<WithName("m")>>>>}

NextNames ==
    \/ \E r \in NameRegs : Register("A", r[1], r[2])
    \/ Register("B", Fn(<<>>, <<"B">>), <<AsSingleton>>)
    \/ RegisterInstance("A", Given(1), <<WithName("n")>>)
    \/ RegisterType("A", "ImplA", <<WithName("m")>>)
    \/ \E n \in Names : DoResolveNamed("A", n)
    \/ DoResolveNamed("B", "")
    \/ \E s \in {NoScope} \cup Created : DoResolveInScope("A", s)
    \/ CreateScope("s")
    \/ Clear

SpecNames == Init /\ [][NextNames]_vars

\* Re-registration: the unnamed key of A is registered over and over, with
\* a (T, error) factory or a factory that takes a B under every lifetime,
\* as a pre-built instance, and by RegisterType.
ReregFactories == {Fn(<<>>, <<"A", "error">>), Fn(<<"B">>, <<"A">>)}

NextRereg ==
    \/ \E f \in ReregFactories, o \in LifeOptions : Register("A", f, o)
    \/ Register("B", Fn(<<>>, <<"B">>), <<>>)
    \/ \E o \in {<<>>, <<AsTransient>>} : RegisterInstance("A", Given(1), o)
    \/ \E o \in {<<>>, <<AsSingleton>>} : RegisterType("A", "ImplA", o)
    \/ DoResolveNamed("A", "")
    \/ \E s \in Created : DoResolveInScope("A", s)
    \/ CreateScope("s")
    \/ SetDown
    \/ Clear

SpecRereg == Init /\ [][NextRereg]_vars

\* Races of resolutions: Singleton factories for A and for B, which takes
\* an A, are registered once each, and A is resolved, while no call is in
\* progress, and the goroutines resolve A and B concurrently.
NextRace ==
    \/ \E r \in LifeRegs :
          AllIdle /\ ~Has(r[1]) /\ Register(r[1], r[2], <<AsSingleton>>)
    \/ AllIdle /\ DoResolveNamed("A", "")
    \/ \E g \in Goroutines :
          \/ \E t \in Types : BeginResolve(g, "ResolveNamed", t, "", NoScope)
          \/ ResolveRLock(g)
          \/ ResolveRUnlock(g)
          \/ SingletonRLock(g)
          \/ SingletonRUnlock(g)
          \/ CallFactory(g)
          \/ SingletonLock(g)
          \/ SingletonUnlock(g)

SpecRace == Init /\ [][NextRace]_vars

\* Concurrent registrations: the goroutines register A and B with
\* factories, with and without a lifetime option, A with an instance and
\* with an implementation type, and B with something that is no function.
ConcFactories ==
    {<<"A", Fn(<<>>, <<"A">>)>>, <<"B", Fn(<<>>, <<"B">>)>>, <<"B", NotAFunction>>}

NextConcReg ==
    \E g \in Goroutines :
        \/ \E r \in ConcFactories, o \in {<<>>, <<AsSingleton>>} :
              BeginRegister(g, r[1], r[2], o)
        \/ BeginRegisterInstance(g, "A", Given(1), <<>>)
        \/ BeginRegisterType(g, "A", "ImplA", <<>>)
        \/ ContainerLock(g)
        \/ InstanceStore(g)
        \/ ContainerUnlock(g)

SpecConcReg == Init /\ [][NextConcReg]_vars

\* All operations, concurrently: a Singleton factory for A and a Scoped
\* factory for B, which takes an A, are registered once each, and a first
\* scope created, while no call is in progress; the goroutines register A
\* again, with the same factory and with an instance, resolve A, resolve B
\* in a scope, create scopes, ask for A and clear the container.
ConcRegs ==
    {<<"A", Fn(<<>>, <<"A", "error">>), <<AsSingleton>>>>,
     <<"B", Fn(<<"A">>, <<"B">>), <<AsScoped>>>>}

NextConc ==
    \/ \E r \in ConcRegs : AllIdle /\ ~Has(r[1]) /\ Register(r[1], r[2], r[3])
    \/ AllIdle /\ Created = {} /\ CreateScope("s")
    \/ \E g \in Goroutines :
          \/ BeginRegister(g, "A", Fn(<<>>, <<"A", "error">>), <<AsSingleton>>)
          \/ BeginRegisterInstance(g, "A", Given(1), <<>>)
          \/ BeginResolve(g, "ResolveNamed", "A", "", NoScope)
          \/ \E s \in Created : BeginResolve(g, "ResolveInScope", "B", "", s)
          \/ BeginCreateScope(g, "s")
          \/ BeginHasNamed(g, "A", "")
          \/ BeginClear(g)
          \/ ResolveRLock(g)
          \/ ResolveRUnlock(g)
          \/ SingletonRLock(g)
          \/ SingletonRUnlock(g)
          \/ ScopeGet(g)
          \/ ScopeGetUnlock(g)
          \/ CallFactory(g)
          \/ SingletonLock(g)
          \/ SingletonUnlock(g)
          \/ ScopeSet(g)
          \/ ScopeSetUnlock(g)
          \/ ContainerLock(g)
          \/ InstanceStore(g)
          \/ ContainerUnlock(g)
          \/ HasRLock(g)
          \/ HasRUnlock(g)

SpecConc == Init /\ [][NextConc]_vars

\* Termination: a factory for A that takes a B, an A or nothing and a
\* factory for B that takes an A, as a Singleton, or two, are registered,
\* once for each type and while no call is in progress, and one goroutine
\* resolves A and B, taking the next step of its call whenever it can.
TermRegs ==
    {<<"A", Fn(<<"B">>, <<"A">>), <<>>>>,
     <<"A", Fn(<<"A">>, <<"A">>), <<>>>>,
     <<"A", Fn(<<>>, <<"A">>), <<>>>>,
     <<"B", Fn(<<"A">>, <<"B">>), <<AsSingleton>>>>,
     <<"B", Fn(<<"A", "A">>, <<"B">>), <<>>>>}

NextTerm ==
    \/ \E r \in TermRegs : AllIdle /\ ~Has(r[1]) /\ Register(r[1], r[2], r[3])
    \/ \E t \in Types : BeginResolve(1, "ResolveNamed", t, "", NoScope)
    \/ ResolveRLock(1)
    \/ ResolveRUnlock(1)
    \/ SingletonRLock(1)
    \/ SingletonRUnlock(1)
    \/ CallFactory(1)
    \/ SingletonLock(1)
    \/ SingletonUnlock(1)

SpecTerm == Init /\ [][NextTerm]_vars /\ WF_vars(Proceed(1))


\* The Must family: A is registered with a factory that takes nothing, a
\* B, or returns (A, error), unnamed or under the name n, or as a pre-built
\* instance (an object or a nil interface value); B's factory takes an A;
\* A and B are resolved with Resolve, ResolveNamed, ResolveInScope,
\* MustResolve and MustResolveNamed.
MustRegs ==
    {<<"A", Fn(<<>>, <<"A">>), <<>>>>,
     <<"A", Fn(<<>>, <<"A">>), <<AsSingleton, WithName("n")>>>>,
     <<"A", Fn(<<>>, <<"A", "error">>), <<AsSingleton>>>>,
     <<"A", Fn(<<"B">>, <<"A">>), <<>>>>,
     <<"B", Fn(<<"A">>, <<"B">>), <<AsSingleton>>>>}

NextMust ==
    \/ \E r \in MustRegs : Register(r[1], r[2], r[3])
    \/ \E v \in {Nil, Given(1)} : RegisterInstance("A", v, <<>>)
    \/ \E t \in Types : DoResolveNamed(t, "")
    \/ DoResolveInScope("A", NoScope)
    \/ \E t \in Types : DoMustResolve(t)
    \/ \E n \in {"", "n"} : DoMustResolveNamed("A", n)
    \/ SetDown

SpecMust == Init /\ [][NextMust]_vars

\* Existence checks: A is registered unnamed or under the name n, with a
\* factory that takes a B (B is never registered), with something that is
\* not a function (which Register rejects), as a pre-built instance and by
\* RegisterType; every key of A and B is asked for with Has and HasNamed.
HasRegs ==
    {<<Fn(<<"B">>, <<"A">>), <<>>>>,
     <<Fn(<<"B">>, <<"A">>), <<AsSingleton, WithName("n")>>>>,
     <<NotAFunction, <<>>>>}

NextHas ==
    \/ \E r \in HasRegs : Register("A", r[1], r[2])
    \/ RegisterInstance("A", Given(1), <<WithName("n")>>)
    \/ RegisterType("A", "ImplA", <<>>)
    \/ \E t \in Types : DoHas(t)
    \/ \E t \in Types, n \in {"", "n"} : DoHasNamed(t, n)
    \/ DoResolveNamed("A", "")
    \/ Clear

SpecHas == Init /\ [][NextHas]_vars

\* Auto-wiring: A is registered with a factory without parameters, with a
\* (T, error) factory, or under the name n only; B with a factory that
\* takes an A and a B, a B and an A, or two As; both are resolved, with
\* and without a scope, while the environment goes down and comes back.
WireRegs ==
    {<<"A", Fn(<<>>, <<"A">>), <<>>>>,
     <<"A", Fn(<<>>, <<"A", "error">>), <<AsScoped>>>>,
     <<"A", Fn(<<>>, <<"A">>), <<WithName("n")>>>>,
     <<"B", Fn(<<"A", "B">>, <<"B">>), <<>>>>,
     <<"B", Fn(<<"B", "A">>, <<"B">>), <<>>>>,
     <<"B", Fn(<<"A", "A">>, <<"B">>), <<>>>>}

NextWire ==
    \/ \E r \in WireRegs : Register(r[1], r[2], r[3])
    \/ \E t \in Types : DoResolveNamed(t, "")
    \/ \E s \in Created : DoResolveInScope("B", s)
    \/ CreateScope("s")
    \/ SetDown

SpecWire == Init /\ [][NextWire]_vars

\* Deep failures: A is registered unnamed and under the name n with a
\* factory that takes a B, unnamed also as a Singleton with a (T, error)
\* factory or as a pre-built instance; B's factory takes an A or, as
\* Scoped, a B; B is also resolved in a scope; the environment goes down
\* and comes back.  A resolution of (A, n) reaches the unnamed A two
\* levels down.
DeepRegs ==
    {<<"A", Fn(<<"B">>, <<"A">>), <<>>>>,
     <<"A", Fn(<<"B">>, <<"A">>), <<WithName("n")>>>>,
     <<"A", Fn(<<>>, <<"A", "error">>), <<AsSingleton>>>>,
     <<"B", Fn(<<"A">>, <<"B">>), <<>>>>,
     <<"B", Fn(<<"B">>, <<"B">>), <<AsScoped>>>>}

NextDeep ==
    \/ \E r \in DeepRegs : Register(r[1], r[2], r[3])
    \/ RegisterInstance("A", Given(1), <<>>)
    \/ \E n \in {"", "n"} : DoResolveNamed("A", n)
    \/ DoResolveNamed("B", "")
    \/ \E s \in Created : DoResolveInScope("B", s)
    \/ CreateScope("s")
    \/ SetDown

SpecDeep == Init /\ [][NextDeep]_vars

\* Scopes: scopes are created under the names s and t, again and again;
\* A is registered as Scoped or as Singleton and B as Scoped with a
\* factory that takes an A; both are resolved in every Scope object
\* created so far, whether the container still knows it or not.
ScopeRegs ==
    {<<"A", Fn(<<>>, <<"A">>), <<AsScoped>>>>,
     <<"A", Fn(<<>>, <<"A">>), <<AsSingleton>>>>,
     <<"B", Fn(<<"A">>, <<"B">>), <<AsScoped>>>>}

NextScope ==
    \/ \E r \in ScopeRegs : Register(r[1], r[2], r[3])
    \/ \E n \in {"s", "t"} : CreateScope(n)
    \/ \E t \in Types, s \in Created : DoResolveInScope(t, s)

SpecScope == Init /\ [][NextScope]_vars

\* Failures after a success: A is registered under each lifetime with a
\* factory that succeeds; B's factory takes an A and a B, so that its
\* second parameter fails as a cycle, or takes an A and returns (B, error),
\* so that it fails itself while the environment is down; both are
\* resolved with and without a scope.
PartialRegs ==
    {<<"A", Fn(<<>>, <<"A">>), <<>>>>,
     <<"A", Fn(<<>>, <<"A">>), <<AsSingleton>>>>,
     <<"A", Fn(<<>>, <<"A">>), <<AsScoped>>>>,
     <<"B", Fn(<<"A", "B">>, <<"B">>), <<AsSingleton>>>>,
     <<"B", Fn(<<"A">>, <<"B", "error">>), <<AsScoped>>>>}

NextPartial ==
    \/ \E r \in PartialRegs : Register(r[1], r[2], r[3])
    \/ \E t \in Types : DoResolveNamed(t, "")
    \/ \E s \in Created : DoResolveInScope("B", s)
    \/ CreateScope("s")
    \/ SetDown

SpecPartial == Init /\ [][NextPartial]_vars

\* Instances, concurrently: a Singleton factory for A is registered and A
\* resolved while no call is in progress; the goroutines register two
\* objects as the instance of A, with no option or as Transient, resolve A
\* and ask whether A is registered.
NextInstRace ==
    \/ AllIdle /\ ~Has("A") /\ Register("A", Fn(<<>>, <<"A">>), <<AsSingleton>>)
    \/ AllIdle /\ DoResolveNamed("A", "")
    \/ \E g \in Goroutines :
          \/ \E v \in {Given(1), Given(2)}, o \in {<<>>, <<AsTransient>>} :
                BeginRegisterInstance(g, "A", v, o)
          \/ BeginResolve(g, "ResolveNamed", "A", "", NoScope)
          \/ BeginHasNamed(g, "A", "")
          \/ ContainerLock(g)
          \/ InstanceStore(g)
          \/ ContainerUnlock(g)
          \/ ResolveRLock(g)
          \/ ResolveRUnlock(g)
          \/ SingletonRLock(g)
          \/ SingletonRUnlock(g)
          \/ CallFactory(g)
          \/ SingletonLock(g)
          \/ SingletonUnlock(g)
          \/ HasRLock(g)
          \/ HasRUnlock(g)

SpecInstRace == Init /\ [][NextInstRace]_vars

\* The scope in auto-wiring: A is registered as Scoped, B as Transient
\* with a factory that takes an A; two scopes are created; B and A are
\* resolved in each scope and without one.
ThreadRegs ==
    {<<"A", Fn(<<>>, <<"A">>), <<AsScoped>>>>,
     <<"B", Fn(<<"A">>, <<"B">>), <<AsTransient>>>>}

NextThread ==
    \/ \E r \in ThreadRegs : ~Has(r[1]) /\ Register(r[1], r[2], r[3])
    \/ \E t \in Types, s \in {NoScope} \cup Created : DoResolveInScope(t, s)
    \/ DoResolveNamed("B", "")
    \/ \E n \in {"s", "t"} : CreateScope(n)

SpecThread == Init /\ [][NextThread]_vars

\* The frame of a resolution: A is registered under each lifetime or as a
\* pre-built instance, B as a Singleton or as Scoped with a factory that
\* takes an A; scopes are created; A and B are resolved without a scope
\* and in every Scope object created so far.
FrameRegs ==
    {<<"A", Fn(<<>>, <<"A">>), <<>>>>,
     <<"A", Fn(<<>>, <<"A">>), <<AsSingleton>>>>,
     <<"A", Fn(<<>>, <<"A">>), <<AsScoped>>>>,
     <<"B", Fn(<<"A">>, <<"B">>), <<AsSingleton>>>>,
     <<"B", Fn(<<"A">>, <<"B">>), <<AsScoped>>>>}

NextFrame ==
    \/ \E r \in FrameRegs : Register(r[1], r[2], r[3])
    \/ RegisterInstance("A", Given(1), <<AsScoped>>)
    \/ DoResolveNamed("B", "")
    \/ \E t \in Types, s \in {NoScope} \cup Created : DoResolveInScope(t, s)
    \/ CreateScope("s")

SpecFrame == Init /\ [][NextFrame]_vars

\* Chains, concurrently: A is registered with a factory that takes nothing
\* or a B, B with a factory that takes an A or two, once for each type and
\* while no call is in progress; the goroutines resolve A and B, at the
\* same time and one after the other.
ChainRegs ==
    {<<"A", Fn(<<>>, <<"A">>), <<>>>>,
     <<"A", Fn(<<"B">>, <<"A">>), <<>>>>,
     <<"B", Fn(<<"A">>, <<"B">>), <<>>>>,
     <<"B", Fn(<<"A", "A">>, <<"B">>), <<>>>>}

NextChain ==
    \/ \E r \in ChainRegs : AllIdle /\ ~Has(r[1]) /\ Register(r[1], r[2], r[3])
    \/ \E g \in Goroutines :
          \/ \E t \in Types : BeginResolve(g, "ResolveNamed", t, "", NoScope)
          \/ ResolveRLock(g)
          \/ ResolveRUnlock(g)
          \/ CallFactory(g)

SpecChain == Init /\ [][NextChain]_vars

\* Scoped resolutions, concurrently: A is registered as Scoped, B as Scoped
\* with a factory that takes an A, once each, and a scope is created,
\* while no call is in progress; the goroutines resolve A and B in the
\* scope at the same time; A and B are resolved in a scope again when
\* the goroutines have made all their calls and all have returned.
ScopedRaceRegs ==
    {<<"A", Fn(<<>>, <<"A">>), <<AsScoped>>>>,
     <<"B", Fn(<<"A">>, <<"B">>), <<AsScoped>>>>}

NextScopedRace ==
    \/ \E r \in ScopedRaceRegs :
          AllIdle /\ ~Has(r[1]) /\ Register(r[1], r[2], r[3])
    \/ AllIdle /\ Created = {} /\ CreateScope("s")
    \/ \E t \in Types, s \in Created :
          AllIdle /\ nCalls = MaxCalls /\ DoResolveInScope(t, s)
    \/ \E g \in Goroutines :
          \/ \E t \in Types, s \in Created :
                BeginResolve(g, "ResolveInScope", t, "", s)
          \/ ResolveRLock(g)
          \/ ResolveRUnlock(g)
          \/ ScopeGet(g)
          \/ ScopeGetUnlock(g)
          \/ CallFactory(g)
          \/ ScopeSet(g)
          \/ ScopeSetUnlock(g)

SpecScopedRace == Init /\ [][NextScopedRace]_vars

\* A type that asks for itself under another name: A is registered under
\* the name n with a factory that takes an A, as Transient or as Singleton,
\* or as a pre-built instance; the unnamed A is a factory without
\* parameters, Transient or Singleton, or a pre-built instance; both keys
\* are resolved.
SelfRegs ==
    {<<Fn(<<"A">>, <<"A">>), <<WithName("n")>>>>,
     <<Fn(<<"A">>, <<"A">>), <<AsSingleton, WithName("n")>>>>,
     <<Fn(<<>>, <<"A">>), <<>>>>,
     <<Fn(<<>>, <<"A">>), <<AsSingleton>>>>}

NextSelf ==
    \/ \E r \in SelfRegs : Register("A", r[1], r[2])
    \/ \E o \in {<<>>, <<WithName("n")>>} : RegisterInstance("A", Given(1), o)
    \/ \E n \in {"", "n"} : DoResolveNamed("A", n)

SpecSelf == Init /\ [][NextSelf]_vars

\* A shared dependency: A's factory takes a B and a C, B's and C's
\* factories take a D each, and D's factory takes nothing, as Transient or
\* as Singleton, or an A, which closes a cycle; each type is registered
\* once and every type is resolved.
DiamondRegs ==
    {<<"A", Fn(<<"B", "C">>, <<"A">>), <<>>>>,
     <<"B", Fn(<<"D">>, <<"B">>), <<>>>>,
     <<"C", Fn(<<"D">>, <<"C">>), <<>>>>,
     <<"D", Fn(<<>>, <<"D">>), <<>>>>,
     <<"D", Fn(<<>>, <<"D">>), <<AsSingleton>>>>,
     <<"D", Fn(<<"A">>, <<"D">>), <<>>>>}

NextDiamond ==
    \/ \E r \in DiamondRegs : ~Has(r[1]) /\ Register(r[1], r[2], r[3])
    \/ \E t \in Types \cup MoreTypes : DoResolveNamed(t, "")

SpecDiamond == Init /\ [][NextDiamond]_vars

\* A Singleton over a Scoped dependency: A is registered as Scoped, B as a
\* Singleton whose factory takes an A, once each; scopes are created; A
\* and B are resolved without a scope and in every scope.
CaptiveRegs ==
    {<<"A", Fn(<<>>, <<"A">>), <<AsScoped>>>>,
     <<"B", Fn(<<"A">>, <<"B">>), <<AsSingleton>>>>}

NextCaptive ==
    \/ \E r \in CaptiveRegs : ~Has(r[1]) /\ Register(r[1], r[2], r[3])
    \/ \E t \in Types, s \in {NoScope} \cup Created : DoResolveInScope(t, s)
    \/ CreateScope("s")

SpecCaptive == Init /\ [][NextCaptive]_vars

\* Clear and the scopes handed out: A is registered as Scoped, with a
\* factory or with another one that can fail, or as Transient; scopes are
\* created; A is resolved in every Scope object created so far, whether
\* the container still knows it or not; the container is cleared.
ClearRegs ==
    {<<"A", Fn(<<>>, <<"A">>), <<AsScoped>>>>,
     <<"A", Fn(<<>>, <<"A", "error">>), <<AsScoped>>>>,
     <<"A", Fn(<<>>, <<"A">>), <<>>>>}

NextClear ==
    \/ \E r \in ClearRegs : Register(r[1], r[2], r[3])
    \/ \E s \in Created : DoResolveInScope("A", s)
    \/ CreateScope("s")
    \/ Clear

SpecClear == Init /\ [][NextClear]_vars

\* Retries: A is registered as a Singleton or as Scoped with a factory
\* that fails while the environment is down, B as a Singleton or as Scoped
\* with a factory that takes an A; a scope is created; both are resolved,
\* with and without the scope, while the environment goes down and comes
\* back.
RetryRegs ==
    {<<"A", Fn(<<>>, <<"A", "error">>), <<AsSingleton>>>>,
     <<"A", Fn(<<>>, <<"A", "error">>), <<AsScoped>>>>,
     <<"B", Fn(<<"A">>, <<"B">>), <<AsSingleton>>>>,
     <<"B", Fn(<<"A">>, <<"B">>), <<AsScoped>>>>}

NextRetry ==
    \/ \E r \in RetryRegs : ~Has(r[1]) /\ Register(r[1], r[2], r[3])
    \/ \E t \in Types : DoResolveNamed(t, "")
    \/ \E t \in Types, s \in Created : DoResolveInScope(t, s)
    \/ Created = {} /\ CreateScope("s")
    \/ SetDown

SpecRetry == Init /\ [][NextRetry]_vars

\* ------------------------------------------------------------------- claims
\* The registration of key was made by Register or RegisterType with the
\* given lifetime.
FactoryReg(key, lifetime) ==
    /\ key \in DOMAIN registrations
    /\ registrations[key].factory.kind = "func"
    /\ registrations[key].lifetime = lifetime

\* The objects the resolutions of key returned, and the calls of its factory.
Returned(key) == {p[2] : p \in hist[key].got}
ReturnedIn(key, scope) == {p[2] : p \in {q \in hist[key].got : q[1] = scope}}
RECURSIVE SumCalls(_, _)
SumCalls(key, s) ==
    IF s < 0 THEN 0 ELSE hist[key].calls[s] + SumCalls(key, s - 1)
TotalCalls(key) == SumCalls(key, MaxScopes)

IsResolve(op) == op \in {"ResolveNamed", "ResolveInScope"}
Events(l) == {l.ev[i] : i \in 1..Len(l.ev)}

NoLifetimeOption(opts) == \A i \in 1..Len(opts) : opts[i].opt # "lifetime"

\* C2: a Register or RegisterType call without a lifetime option registers
\* the key as Transient; while a key stays registered as Transient and none
\* of its resolutions failed, its factory has been called once per
\* resolution; and no resolution reads or writes the singleton cache or a
\* scope cache under a Transient key.
C2_TransientFreshness ==
    /\ (last.op \in {"Register", "RegisterType"} /\ last.res.kind = "ok"
            /\ NoLifetimeOption(last.opts))
          => registrations[last.key].lifetime = Transient
    /\ \A k \in Keys :
          (FactoryReg(k, Transient) /\ hist[k].fails = 0)
              => TotalCalls(k) = hist[k].n
    /\ IsResolve(last.op) =>
          \A a \in last.acc :
              a.map \in {"singletons", "instances"} => ~FactoryReg(a.key, Transient)

\* A key registered without a lifetime option has been resolved at least
\* twice, the last time in a scope as a factory parameter.
C2_Witness ==
    \E k \in Keys :
        /\ FactoryReg(k, Transient)
        /\ hist[k].fails = 0
        /\ hist[k].n >= 2
        /\ TotalCalls(k) = hist[k].n
        /\ \E e \in Events(last) :
              e.key = k /\ e.depth = 1 /\ e.scope # NoScope /\ e.invoked

Uncached(obj) ==
    /\ \A k \in DOMAIN singletons : singletons[k] # obj
    /\ \A s \in Created : \A k \in DOMAIN instances[s] : instances[s][k] # obj

\* C4: a resolution of a Scoped key without a scope fails only when a
\* parameter of its factory fails to resolve or the factory returns an
\* error; when it succeeds it has called the factory, has written no cache
\* entry for the key, and the object it returns is in no cache.
C4_ScopedDegradation ==
    IsResolve(last.op) =>
        \A e \in Events(last) :
            (e.scope = NoScope /\ FactoryReg(e.key, Scoped)) =>
                /\ e.kind = "ok" => e.invoked /\ Uncached(e.val)
                /\ e.kind # "ok" =>
                      \/ e.invoked /\ down
                      \/ e.err.e = "ErrCircularDependency"
                      \/ \E e2 \in Events(last) :
                            e2.depth = e.depth + 1 /\ e2.kind # "ok"
                /\ ~\E a \in last.acc :
                      a.op = "set" /\ a.key = e.key /\ a.depth = e.depth

\* A Scoped key resolved without a scope for the second time, by a call
\* that passes a nil scope to ResolveInScope.
C4_Witness ==
    /\ last.op = "ResolveInScope"
    /\ last.scope = NoScope
    /\ FactoryReg(last.key, Scoped)
    /\ last.res.kind = "ok"
    /\ hist[last.key].calls[NoScope] >= 2
    /\ Cardinality(ReturnedIn(last.key, NoScope)) >= 2


\* The registration of key was made by RegisterInstance.
InstanceReg(key) ==
    /\ key \in DOMAIN registrations
    /\ registrations[key].factory = NilFactory

\* C5: while a key stays registered by RegisterInstance(K, v), every
\* resolution of K, top-level or as a parameter, with any lifetime option
\* and with or without a scope, returns v and calls no factory.
C5_InstancePrecedence ==
    IsResolve(last.op) =>
        /\ \A e \in Events(last) :
              InstanceReg(e.key) =>
                  /\ e.kind = "ok"
                  /\ e.val = registrations[e.key].instance
                  /\ ~e.invoked
        /\ InstanceReg(last.key) =>
              last.res = Ok(registrations[last.key].instance)


\* The registered factory of key returns (T, error).
ErrorFactoryReg(key) ==
    /\ key \in DOMAIN registrations
    /\ registrations[key].factory.kind = "func"
    /\ registrations[key].factory.out = <<key[1], "error">>

\* C9: in every resolution, a resolve call that runs a (T, error) factory
\* fails with ErrResolutionFailed of Type T whose Unwrap is the factory's
\* error when that error is non-nil, and otherwise succeeds with the
\* object the factory has just made; the caller of Resolve gets that
\* outcome.
C9_FactoryErrorPropagation ==
    [][IsResolve(last'.op) =>
          \A e \in Events(last') :
              (e.invoked /\ ErrorFactoryReg(e.key)) =>
                  /\ down =>
                        /\ e.kind = "err"
                        /\ e.err.e = "ErrResolutionFailed"
                        /\ e.err.Type = e.key[1]
                        /\ e.err.Cause = FactoryError
                  /\ ~down =>
                        /\ e.kind = "ok"
                        /\ \E i \in nextObj..(nextObj' - 1) : e.val = Made(i)
                  /\ e.depth = 0 =>
                        /\ last'.res.kind = e.kind
                        /\ last'.res.val = e.val
                        /\ last'.res.err = e.err]_vars

\* Resolve has just failed on the error of the key's own factory, after an
\* earlier Resolve of the key succeeded.
C9_Witness ==
    /\ IsResolve(last.op)
    /\ ErrorFactoryReg(last.key)
    /\ last.res.kind = "err"
    /\ last.res.err = ErrResolutionFailed(last.key[1], FactoryError)
    /\ hist[last.key].n >= 1


\* The elements of a sequence.
Range(seq) == {seq[i] : i \in 1..Len(seq)}

\* The unnamed registrations of A and B are factories taking each other.
CyclePair ==
    /\ registrationKey("A", "") \in DOMAIN registrations
    /\ registrationKey("B", "") \in DOMAIN registrations
    /\ registrations[registrationKey("A", "")].factory.kind = "func"
    /\ registrations[registrationKey("B", "")].factory.kind = "func"
    /\ registrations[registrationKey("A", "")].factory.in = <<"B">>
    /\ registrations[registrationKey("B", "")].factory.in = <<"A">>

\* A cache the resolution with the given scope consults holds an entry for
\* the key.
CachedFor(key, scope) ==
    \/ registrations[key].lifetime = Singleton /\ key \in DOMAIN singletons
    \/ /\ registrations[key].lifetime = Scoped
       /\ scope # NoScope
       /\ key \in DOMAIN instances[scope]

InvalidShape(t, f) ==
    \/ f.kind # "func"
    \/ Len(f.out) = 0
    \/ Len(f.out) > 2
    \/ Len(f.out) >= 1 /\ ~AssignableTo(f.out[1], t)
    \/ Len(f.out) >= 2 /\ f.out[2] # "error"

\* C8: Register with a factory that is not a function, returns no value,
\* returns more than two values, returns a first value not assignable to
\* the registered type or a second value that is not an error, fails with
\* ErrInvalidFactory and leaves the registry, the caches and the scopes as
\* they were; with any other factory it stores the registration; and no
\* resolve call, top-level or nested, fails with ErrInvalidFactory.
C8_FactoryValidation ==
    [][/\ last'.op = "Register" =>
             IF InvalidShape(last'.key[1], last'.arg)
             THEN /\ last'.res.kind = "err"
                  /\ last'.res.err.e = "ErrInvalidFactory"
                  /\ UNCHANGED <<registrations, singletons, scopes, instances>>
             ELSE /\ last'.res.kind = "ok"
                  /\ last'.key \in DOMAIN registrations'
                  /\ registrations'[last'.key].factory = last'.arg
       /\ IsResolve(last'.op) =>
             \A e \in Events(last') :
                 e.kind = "err" => RootCause(e.err).e # "ErrInvalidFactory"]_vars

\* Register has just rejected a factory for a key that has a registration
\* and a cached instance, which are still there.
C8_Witness ==
    /\ last.op = "Register"
    /\ last.res.kind = "err"
    /\ last.res.err.e = "ErrInvalidFactory"
    /\ last.key \in DOMAIN registrations
    /\ last.key \in DOMAIN singletons
    /\ registrations[last.key].factory # last.arg


\* C6: a top-level resolution (ResolveNamed with any name, ResolveInScope
\* with nil or a Scope) of a key that has no registration returns
\* ErrNotRegistered with the requested type, not wrapped; it makes one
\* resolve call, calls no factory and leaves the registry, the caches, the
\* scopes and the allocator as they were.
C6_MissingRegistration ==
    [][(IsResolve(last'.op) /\ last'.key \notin DOMAIN registrations) =>
          /\ last'.res.kind = "err"
          /\ last'.res.err.e = "ErrNotRegistered"
          /\ last'.res.err.Type = last'.key[1]
          /\ Len(last'.ev) = 1
          /\ \A e \in Events(last') : ~e.invoked
          /\ UNCHANGED <<registrations, singletons, scopes, instances,
                         nextObj>>]_vars

\* A name of A has just been resolved in vain while A is registered
\* unnamed and under another name and the singleton cache is not empty.
C6_Witness ==
    /\ last.op = "ResolveNamed"
    /\ last.key[2] # ""
    /\ last.key \notin DOMAIN registrations
    /\ registrationKey(last.key[1], "") \in DOMAIN registrations
    /\ \E n \in Names \ {"", last.key[2]} :
          registrationKey(last.key[1], n) \in DOMAIN registrations
    /\ DOMAIN singletons # {}
    /\ last.res = Fail(ErrNotRegistered(last.key[1]))


\* The operations made on one key.
IsKeyOp(op) ==
    op \in {"Register", "RegisterInstance", "RegisterType", "ResolveNamed",
            "ResolveInScope"}

\* The other keys of the type of key.
OtherNames(key) == {registrationKey(key[1], n) : n \in Names} \ {key}

\* What a caller sees of a resolution r: its kind and error, and the object
\* when it comes from the registration or a cache ("new" when the key's
\* factory made it for this very call).
Outcome(r) ==
    [kind |-> r.res.kind, err |-> r.res.err,
     val |-> IF r.st.ev[Len(r.st.ev)].invoked THEN "new" ELSE r.res.val]

\* ResolveNamed in the state st of the container.
ResolveNamedIn(st, targetType, name) ==
    typeAssert(resolve(st, targetType, name, NoScope, <<>>, 0))

\* The resolution r asks for the type again as a factory parameter.
AsksForType(r, t) ==
    \E i \in 1..Len(r.st.ev) : r.st.ev[i].depth >= 1 /\ r.st.ev[i].key[1] = t

\* C10: the keys (T, n) of one type are independent.  The resolve call of
\* a top-level resolution of (T, n) reads and writes the registry and the
\* caches under (T, n) only; an operation on (T, n1) leaves the
\* registration and every cache entry of each other key (T, n2) as they
\* were, and with them what ResolveNamed(T, n2) returns (for a (T, n2)
\* whose resolution does not ask for type T as a factory parameter, which
\* is resolved as the unnamed key); and resolving a key without
\* registration while another name of the type is registered fails with
\* ErrNotRegistered.
C10_NamedIsolation ==
    [][/\ IsResolve(last'.op) =>
             \A a \in last'.acc : a.depth = 0 => a.key = last'.key
       /\ IsKeyOp(last'.op) =>
             \A k2 \in OtherNames(last'.key) :
                 /\ (k2 \in DOMAIN registrations') = (k2 \in DOMAIN registrations)
                 /\ k2 \in DOMAIN registrations =>
                       registrations'[k2] = registrations[k2]
                 /\ (k2 \in DOMAIN singletons') = (k2 \in DOMAIN singletons)
                 /\ k2 \in DOMAIN singletons => singletons'[k2] = singletons[k2]
                 /\ \A s \in Created :
                       /\ (k2 \in DOMAIN instances'[s]) = (k2 \in DOMAIN instances[s])
                       /\ k2 \in DOMAIN instances[s] =>
                             instances'[s][k2] = instances[s][k2]
                 /\ LET r == ResolveNamed(k2[1], k2[2])
                    IN  ~AsksForType(r, k2[1]) =>
                          Outcome(ResolveNamedIn(StartState', k2[1], k2[2]))
                              = Outcome(r)
       /\ (/\ IsResolve(last'.op)
           /\ last'.key \notin DOMAIN registrations
           /\ \E k2 \in OtherNames(last'.key) : k2 \in DOMAIN registrations)
          => /\ last'.res.kind = "err"
             /\ last'.res.err.e = "ErrNotRegistered"
             /\ last'.res.err.Type = last'.key[1]]_vars

\* A named key has just been resolved to its own cached singleton while
\* the unnamed key of the type holds a different cached singleton.
C10_Witness ==
    /\ last.op = "ResolveNamed"
    /\ last.key[2] # ""
    /\ last.res.kind = "ok"
    /\ FactoryReg(last.key, Singleton)
    /\ last.key \in DOMAIN singletons
    /\ registrationKey(last.key[1], "") \in DOMAIN singletons
    /\ FactoryReg(registrationKey(last.key[1], ""), Singleton)
    /\ singletons[last.key] = last.res.val
    /\ singletons[registrationKey(last.key[1], "")] # last.res.val


\* C11: when Clear has returned, Has and HasNamed are false for every key,
\* ResolveNamed of every key fails with ErrNotRegistered of its type, and
\* the singleton cache and the scope table of the container are empty;
\* and a key registered as a Singleton factory after a Clear, the cache
\* holding nothing for it then, is resolved by calling that factory, to an
\* object that no Clear ever found in the singleton cache.
C11_ClearResets ==
    /\ last.op = "Clear" =>
          /\ singletons = EmptyMap
          /\ scopes = EmptyMap
          /\ \A t \in Types : ~Has(t)
          /\ \A k \in Keys :
                /\ ~HasNamed(k[1], k[2])
                /\ ResolveNamed(k[1], k[2]).res.kind = "err"
                /\ ResolveNamed(k[1], k[2]).res.err.e = "ErrNotRegistered"
                /\ ResolveNamed(k[1], k[2]).res.err.Type = k[1]
    /\ \A k \in Keys :
          (FactoryReg(k, Singleton) /\ ~hist[k].staleSing /\ hist[k].n >= 1) =>
              /\ TotalCalls(k) >= 1
              /\ Returned(k) \cap preClear = {}

\* A key whose singleton a Clear removed has been registered as a
\* Singleton again and resolved.
C11_Witness ==
    /\ IsResolve(last.op)
    /\ last.res.kind = "ok"
    /\ FactoryReg(last.key, Singleton)
    /\ hist[last.key].n = 1
    /\ preClear # {}
    /\ last.res.val \notin preClear
    /\ \E o \in preClear : o.src = "made"


\* The registration operations.
IsRegister(op) == op \in {"Register", "RegisterInstance", "RegisterType"}

\* The lifetime the options of a call leave: that of the last lifetime
\* option, or the default of the operation.
LifetimeOf(opts, default) ==
    LET ls == SelectSeq(opts, LAMBDA o : o.opt = "lifetime")
    IN  IF ls = <<>> THEN default ELSE ls[Len(ls)].lifetime

\* The registration a successful registration call l describes, built from
\* its arguments alone.
Written(l) ==
    [targetType |-> l.key[1],
     name |-> l.key[2],
     implType |-> IF l.op = "RegisterType" THEN l.arg ELSE "",
     factory |-> IF l.op = "Register" THEN l.arg
                 ELSE IF l.op = "RegisterType"
                 THEN [kind |-> "func", in |-> <<>>, out |-> <<l.key[1]>>,
                       new |-> l.arg]
                 ELSE [kind |-> "nil", in |-> <<>>, out |-> <<>>, new |-> ""],
     instance |-> IF l.op = "RegisterInstance" THEN l.arg
                  ELSE [src |-> "nil", id |-> 0],
     lifetime |-> LifetimeOf(l.opts, IF l.op = "RegisterInstance"
                                     THEN Singleton ELSE Transient)]

\* The maps m1 and m2 agree on key k.
SameEntry(m1, m2, k) ==
    /\ (k \in DOMAIN m1) = (k \in DOMAIN m2)
    /\ k \in DOMAIN m2 => m1[k] = m2[k]

\* The resolve calls a resolution made for the parameters of the top-level
\* key's factory, in order.
ParamEvents(l) == SelectSeq(l.ev, LAMBDA e : e.depth = 1)

\* C12: a successful Register, RegisterInstance or RegisterType leaves
\* under its key exactly the registration its own arguments describe,
\* whatever the key held before, and leaves every other key of the
\* registry as it was; and a top-level resolution of a key for which no
\* cache it consults holds an instance goes by the registration in the
\* registry: it returns its pre-built instance, or resolves the parameters
\* of its factory, calls it, gets the factory's error if it returns one,
\* and caches the object as its lifetime says.
C12_LastWriteWins ==
    [][/\ (IsRegister(last'.op) /\ last'.res.kind = "ok") =>
             /\ DOMAIN registrations' = DOMAIN registrations \cup {last'.key}
             /\ registrations'[last'.key] = Written(last')
             /\ \A k \in DOMAIN registrations \ {last'.key} :
                   registrations'[k] = registrations[k]
       /\ (/\ IsResolve(last'.op)
           /\ last'.key \in DOMAIN registrations
           /\ ~CachedFor(last'.key, last'.scope))
          => LET reg == registrations[last'.key]
                 e == last'.ev[Len(last'.ev)]
                 ps == ParamEvents(last')
             IN
             IF reg.instance # Nil
             THEN last'.res = Ok(reg.instance) /\ ~e.invoked /\ ps = <<>>
             ELSE IF reg.factory.kind # "func"
             THEN last'.res.kind = "panic"
             ELSE
             /\ Len(ps) <= Len(reg.factory.in)
             /\ \A i \in 1..Len(ps) :
                   ps[i].key = registrationKey(reg.factory.in[i], "")
             /\ e.invoked =
                   (Len(ps) = Len(reg.factory.in)
                      /\ \A i \in 1..Len(ps) : ps[i].kind = "ok")
             /\ e.invoked =>
                   IF Len(reg.factory.out) = 2 /\ down
                   THEN last'.res.kind = "err"
                        /\ last'.res.err.Cause = FactoryError
                   ELSE last'.res.kind = "ok"
             /\ last'.res.kind = "ok" =>
                   /\ e.invoked
                   /\ IF reg.lifetime = Singleton
                      THEN /\ last'.key \in DOMAIN singletons'
                           /\ singletons'[last'.key] = last'.res.val
                      ELSE SameEntry(singletons', singletons, last'.key)
                   /\ \A s \in Created :
                         IF reg.lifetime = Scoped /\ s = last'.scope
                         THEN /\ last'.key \in DOMAIN instances'[s]
                              /\ instances'[s][last'.key] = last'.res.val
                         ELSE SameEntry(instances'[s], instances[s],
                                        last'.key)]_vars

\* A key registered by RegisterInstance and then by a Scoped factory taking
\* B has just been resolved in a scope to a new object.
C12_Witness ==
    /\ last.op = "ResolveInScope"
    /\ last.res.kind = "ok"
    /\ last.key \in DOMAIN registrations
    /\ registrations[last.key].lifetime = Scoped
    /\ registrations[last.key].factory.in = <<"B">>
    /\ last.key \in DOMAIN singletons
    /\ singletons[last.key] = Given(1)
    /\ last.res.val # Given(1)


\* C13: Register and RegisterType leave the singleton cache and every scope
\* cache as they were. A resolution of a registered key for which the cache
\* its lifetime consults holds an entry returns that entry, calls no factory
\* and resolves no parameter, whatever factory the registration has now, and
\* leaves the caches as they were. An entry of the singleton cache changes
\* only by Clear or by RegisterInstance on its key, and an entry of a scope's
\* cache never changes.
C13_ReregistrationKeepsCaches ==
    [][/\ last'.op \in {"Register", "RegisterType"} =>
             /\ singletons' = singletons
             /\ instances' = instances
       /\ (/\ IsResolve(last'.op)
           /\ last'.key \in DOMAIN registrations
           /\ CachedFor(last'.key, last'.scope)) =>
             /\ last'.res =
                   Ok(IF registrations[last'.key].lifetime = Singleton
                      THEN singletons[last'.key]
                      ELSE instances[last'.scope][last'.key])
             /\ Len(last'.ev) = 1
             /\ ~last'.ev[1].invoked
             /\ singletons' = singletons
             /\ instances' = instances
       /\ \A k \in DOMAIN singletons :
             \/ SameEntry(singletons', singletons, k)
             \/ last'.op = "Clear"
             \/ last'.op = "RegisterInstance" /\ last'.key = k
       /\ \A s \in Created : \A k \in DOMAIN instances[s] :
             SameEntry(instances'[s], instances[s], k)]_vars

\* A Singleton factory registration of A that takes the unregistered B has
\* just been resolved to the object an earlier factory made.
C13_Witness ==
    /\ IsResolve(last.op)
    /\ last.key = registrationKey("A", "")
    /\ FactoryReg(last.key, Singleton)
    /\ registrations[last.key].factory.in = <<"B">>
    /\ registrationKey("B", "") \notin DOMAIN registrations
    /\ last.res.kind = "ok"
    /\ last.res.val.src = "made"
    /\ hist[last.key].n >= 2

\* ------------------------------------------------------------ concurrency
\* The goroutine is in a call of ResolveNamed or ResolveInScope that began
\* when the singleton cache held an entry for its key, registered with a
\* factory and Singleton lifetime.
BeganCached(gr) ==
    /\ gr.pc # "idle"
    /\ IsResolve(gr.call.op)
    /\ gr.call.key \in DOMAIN gr.began
    /\ FactoryReg(gr.call.key, Singleton)

\* The step is one of goroutine g, and the one by which its call returns.
StepOf(g) == goroutines'[g] # goroutines[g]
Returns(g) == goroutines[g].pc # "idle" /\ goroutines'[g].pc = "idle"

\* C15: with no Register or Clear in progress, a Resolve of K that begins
\* when the singleton cache holds an instance for K, whatever other
\* resolutions run at the same time, never changes the cache and returns
\* with success the instance the cache holds, having made one lookup and
\* called no factory; when no resolution that began before the cache held
\* K was in progress as it began, that is the instance the cache held as
\* it began.
C15_CachedSingletonConcurrent ==
    [][\A g \in Goroutines :
          (BeganCached(goroutines[g]) /\ StepOf(g)) =>
             /\ singletons' = singletons
             /\ Returns(g) =>
                   /\ last'.res = Ok(singletons[last'.key])
                   /\ Len(last'.ev) = 1
                   /\ ~last'.ev[1].invoked
                   /\ goroutines[g].racers = {} =>
                         last'.res.val = goroutines[g].began[last'.key]]_vars

\* Two goroutines, each in a Resolve of the same key that began with the
\* key cached, hold c.mu for reading at the same time, having both found
\* the entry.
C15_Witness ==
    \E g, h \in Goroutines :
        /\ g # h
        /\ BeganCached(goroutines[g])
        /\ BeganCached(goroutines[h])
        /\ goroutines[g].call.key = goroutines[h].call.key
        /\ goroutines[g].pc = "singUnlock"
        /\ goroutines[h].pc = "singUnlock"
        /\ {g, h} \subseteq mu.readers
        /\ Top(goroutines[g]).hit
        /\ Top(goroutines[h]).hit

\* C16: for a key registered with a factory and Singleton lifetime, the
\* factory has been called at most once and all the resolutions of the key,
\* by whatever goroutine, have returned one and the same instance.
C16_SingletonOnceUnderConcurrency ==
    \A k \in Keys :
        FactoryReg(k, Singleton) =>
            /\ TotalCalls(k) <= 1
            /\ Cardinality(Returned(k)) <= 1

\* The objects the resolutions of key have returned, after the step.
ReturnedNext(key) == {p[2] : p \in hist'[key].got}

\* C17: resolutions that race on a Singleton key not yet cached return
\* what a resolution running alone would return (none fails because of the
\* race) while the factory is called more than once; each of them stores
\* the instance its own factory call made over the entry it finds, so the
\* cache holds the instance stored last; once all calls have returned, the
\* cache holds for the key one of the instances they returned; and a
\* resolution that begins with the key cached and no racer in progress,
\* or with no call in progress at all, returns the cached instance and
\* calls no factory.
C17_DoubleCreateConverges ==
    [][/\ \A g \in Goroutines :
             /\ (Returns(g) /\ IsResolve(last'.op)) =>
                   /\ last'.res.kind = ResolveNamed(last'.key[1], last'.key[2]).res.kind
                   /\ last'.res.err = ResolveNamed(last'.key[1], last'.key[2]).res.err
             /\ (StepOf(g) /\ goroutines[g].pc = "store") =>
                   LET top == Top(goroutines[g]) IN
                   /\ top.called
                   /\ top.val.src = "made"
                   /\ singletons' = (top.key :> top.val) @@ singletons
             /\ (StepOf(g) /\ goroutines[g].pc # "store") =>
                   singletons' = singletons
             /\ (Returns(g) /\ BeganCached(goroutines[g])
                   /\ goroutines[g].racers = {}) =>
                   /\ last'.res = Ok(goroutines[g].began[last'.key])
                   /\ \A e \in Events(last') : ~e.invoked
       /\ (AllIdle /\ nOps' # nOps /\ IsResolve(last'.op)
             /\ FactoryReg(last'.key, Singleton)
             /\ last'.key \in DOMAIN singletons) =>
             /\ last'.res = Ok(singletons[last'.key])
             /\ \A e \in Events(last') : ~e.invoked
             /\ singletons' = singletons
       /\ AllIdle' =>
             \A k \in Keys :
                 (FactoryReg(k, Singleton) /\ hist'[k].n >= 1) =>
                     /\ k \in DOMAIN singletons'
                     /\ singletons'[k] \in ReturnedNext(k)]_vars

\* After a race in which the factory of A was called twice and two
\* instances were returned, a later resolution of A has returned the cached
\* one of them without calling the factory.
C17_Witness ==
    LET k == registrationKey("A", "") IN
    /\ AllIdle
    /\ FactoryReg(k, Singleton)
    /\ TotalCalls(k) = 2
    /\ Cardinality(Returned(k)) = 2
    /\ hist[k].n >= 3
    /\ IsResolve(last.op)
    /\ last.key = k
    /\ last.res = Ok(singletons[k])
    /\ ~last.ev[1].invoked

\* No goroutine writes a map of the container, or reads it, while another
\* writes it: the writer of a mutex is alone, and a goroutine is in a
\* section that writes the container's maps exactly while it holds c.mu
\* for writing.
NoDataRace ==
    /\ mu.writer # 0 => mu.readers = {}
    /\ \A s \in DOMAIN scopeMu : scopeMu[s].writer # 0 => scopeMu[s].readers = {}
    /\ \A g \in Goroutines :
          /\ goroutines[g].pc \in {"instance", "unlock", "storeUnlock"}
                <=> mu.writer = g
          /\ goroutines[g].pc \in {"lookupUnlock", "singUnlock", "hasUnlock"}
                <=> g \in mu.readers

\* The registrations stored under the key, among the pairs w.
WrittenUnder(w, key) == {p[2] : p \in {q \in w : q[1] = key}}

\* C14: registrations by concurrent goroutines never write the registry at
\* the same time; a registering call that returns without error has stored
\* the registration built from its arguments; every key some call has
\* stored stays in the registry, holding one of the registrations stored
\* under it (the one stored last); and once all calls have returned every
\* such key resolves.
C14_ConcurrentRegistration ==
    [][/\ NoDataRace'
       /\ \A g \in Goroutines :
             /\ (Returns(g) /\ IsRegister(last'.op) /\ last'.res.kind = "ok") =>
                   /\ last'.key \in DOMAIN registrations'
                   /\ Written(last') \in WrittenUnder(wrote', last'.key)
             /\ (StepOf(g) /\ goroutines[g].pc = "write") =>
                   /\ registrations'[goroutines[g].call.key]
                         = RegistrationOf(goroutines[g].call)
                   /\ \A k \in DOMAIN registrations \ {goroutines[g].call.key} :
                         /\ k \in DOMAIN registrations'
                         /\ registrations'[k] = registrations[k]
       /\ \A p \in wrote' :
             /\ p[1] \in DOMAIN registrations'
             /\ registrations'[p[1]] \in WrittenUnder(wrote', p[1])
       /\ AllIdle =>
             \A p \in wrote :
                 /\ HasNamed(p[1][1], p[1][2])
                 /\ ResolveNamed(p[1][1], p[1][2]).res.kind = "ok"]_vars

\* While one goroutine holds c.mu to store a registration of a key, another
\* waits in Lock to store a different registration of the same key.
C14_Witness ==
    \E g, h \in Goroutines :
        /\ goroutines[g].pc = "unlock"
        /\ goroutines[h].pc = "write"
        /\ h \in mu.waiting
        /\ goroutines[g].call.key = goroutines[h].call.key
        /\ RegistrationOf(goroutines[g].call) # RegistrationOf(goroutines[h].call)

\* The mutexes the goroutine holds, and the ones it is blocked on in Lock:
\* 0 stands for c.mu, s >= 1 for the mutex of the s-th Scope.
HeldBy(g) ==
    {m \in {0} : Holds(mu, g)} \cup {s \in DOMAIN scopeMu : Holds(scopeMu[s], g)}
WaitedBy(g) ==
    {m \in {0} : Waits(mu, g)} \cup {s \in DOMAIN scopeMu : Waits(scopeMu[s], g)}

\* C18: a goroutine holds at most one mutex, and only between acquiring it
\* and the release that follows; it holds none while its factory runs,
\* while it is about to acquire a mutex (as it is when resolve is entered
\* for a parameter) and while it is blocked in Lock; and whenever calls are
\* in progress, one of them can take its next step, so every call made
\* returns.
C18_NoDeadlock ==
    /\ \A g \in Goroutines :
          LET pc == goroutines[g].pc IN
          /\ Cardinality(HeldBy(g)) <= 1
          /\ HeldBy(g) # {} =>
                pc \in {"lookupUnlock", "singUnlock", "scopeGetUnlock",
                        "storeUnlock", "scopeSetUnlock", "instance", "unlock",
                        "hasUnlock"}
          /\ pc = "call" => HeldBy(g) = {} /\ WaitedBy(g) = {}
          /\ pc \in {"lookup", "sing", "scopeGet", "has"} =>
                HeldBy(g) = {} /\ WaitedBy(g) = {}
          /\ WaitedBy(g) # {} =>
                /\ HeldBy(g) = {}
                /\ pc \in {"store", "scopeSet", "write"}
          /\ pc = "idle" => HeldBy(g) = {} /\ WaitedBy(g) = {}
    /\ ~AllIdle => \E g \in Goroutines : ENABLED Proceed(g)

\* A goroutine is in the factory of B, inside ResolveInScope, after the
\* resolution of its parameter has returned, while another goroutine holds
\* c.mu for writing.
C18_Witness ==
    \E g, h \in Goroutines :
        /\ g # h
        /\ goroutines[g].pc = "call"
        /\ Top(goroutines[g]).key = registrationKey("B", "")
        /\ Len(Top(goroutines[g]).args) = 1
        /\ goroutines[g].call.op = "ResolveInScope"
        /\ mu.writer = h

\* The types with a registration, and the types of the first n activations
\* of resolve on the goroutine's stack.
RegisteredTypes == {k[1] : k \in DOMAIN registrations}
TypesOf(stack, n) == [i \in 1..n |-> stack[i].key[1]]
NoRepeat(seq) == \A i, j \in 1..Len(seq) : i # j => seq[i] # seq[j]

\* C19: at every moment of a call the chain an activation of resolve was
\* given is the types of the activations below it, none of them twice (only
\* the activation just entered may repeat one, and it returns
\* ErrCircularDependency), so the stack is never deeper than the number of
\* registered types plus one; and every call in progress returns.
C19_ResolveTerminates ==
    /\ [][\A g \in Goroutines :
             LET stack == goroutines'[g].stack IN
             /\ Len(stack) <= Cardinality(RegisteredTypes') + 1
             /\ \A i \in 1..Len(stack) : stack[i].chain = TypesOf(stack, i - 1)
             /\ NoRepeat(TypesOf(stack, Len(stack) - 1))
             /\ (Len(stack) >= 1 /\ goroutines'[g].pc \notin {"lookup", "lookupUnlock"})
                   => NoRepeat(TypesOf(stack, Len(stack)))]_vars
    /\ \A g \in Goroutines :
          (goroutines[g].pc # "idle") ~> (goroutines[g].pc = "idle")

\* With A and B taking each other, a resolution of A has entered resolve a
\* third time, for A again, with the chain A, B.
C19_Witness ==
    \E g \in Goroutines :
        /\ Len(goroutines[g].stack) = 3
        /\ Top(goroutines[g]).chain = <<"A", "B">>
        /\ Top(goroutines[g]).key = registrationKey("A", "")
        /\ goroutines[g].pc = "lookupUnlock"
        /\ Cardinality(RegisteredTypes) = 2

\* The Must operations.
IsMust(op) == op \in {"MustResolve", "MustResolveNamed"}

\* C20: Must* is Resolve plus abort.  A MustResolve or MustResolveNamed
\* call panics exactly when ResolveNamed of the same key in the same state
\* returns an error, and then the value of the panic is that error;
\* otherwise it returns what ResolveNamed returns; in both cases it leaves
\* the caches and the allocator as ResolveNamed leaves them.  No other
\* operation panics: a resolution that fails returns its failure.
C20_MustIsResolvePlusAbort ==
    [][nOps' # nOps =>
          /\ IsMust(last'.op) =>
                LET r == ResolveNamedIn(StartState, last'.key[1], last'.key[2]) IN
                /\ (last'.res.kind = "panic") <=> (r.res.kind = "err")
                /\ r.res.kind = "err" => last'.res.err = r.res.err
                /\ r.res.kind # "err" => last'.res = r.res
                /\ singletons' = r.st.sing
                /\ instances' = r.st.sinst
                /\ nextObj' = r.st.next
          /\ ~IsMust(last'.op) => last'.res.kind # "panic"]_vars

\* ------------------------------------------------------- existence checks
IsHas(op) == op \in {"Has", "HasNamed"}

\* C21: Has/HasNamed is a pure existence check.  A call returns true
\* exactly when the key was registered, by Register, RegisterInstance or
\* RegisterType, since the last Clear, whether or not the key resolves; Has
\* asks for the unnamed key; the call leaves the registry, the singleton
\* cache, the scope table and every scope cache as they were.
C21_HasIsPure ==
    [][(nOps' # nOps /\ IsHas(last'.op)) =>
          /\ last'.res = Ok(Bool(hist[last'.key].kind # "none"))
          /\ last'.op = "Has" => last'.key[2] = ""
          /\ UNCHANGED <<registrations, singletons, scopes, instances, nextObj>>]_vars

\* HasNamed has returned true for a key whose resolution fails, while Has
\* of another type returns false.
C21_Witness ==
    /\ last.op = "HasNamed"
    /\ last.res = Ok(Bool(TRUE))
    /\ ResolveNamedIn(StartState, last.key[1], last.key[2]).res.kind = "err"
    /\ ~Has("B")

\* ---------------------------------------------------------- the call tree
\* The events of a trace are in the order in which the resolve calls
\* returned, so the calls made by the call of event j (one per factory
\* parameter) are the events of the next depth before j with no event of
\* j's depth or less in between.
KidsOf(ev, j) ==
    {i \in 1..(j - 1) :
        /\ ev[i].depth = ev[j].depth + 1
        /\ \A m \in (i + 1)..(j - 1) : ev[m].depth > ev[j].depth}

\* The position of call i among the calls of its caller.
RankIn(K, i) == Cardinality({k \in K : k <= i})

\* The types being resolved when the call of event i was made, outermost
\* first: the caller of i is the first later event one level up.
RECURSIVE PathOf(_, _)
PathOf(ev, i) ==
    IF ev[i].depth = 0 THEN <<>>
    ELSE LET up == CHOOSE m \in (i + 1)..Len(ev) :
                     /\ ev[m].depth = ev[i].depth - 1
                     /\ \A n \in (i + 1)..(m - 1) : ev[n].depth >= ev[i].depth
         IN  Append(PathOf(ev, up), ev[up].key[1])

\* A sequential resolution has just completed.
ResolvedNow == nOps' # nOps /\ IsResolve(last'.op)

\* C22: auto-wiring order and fail-fast.  In every resolution, the calls
\* a resolve call makes are for the parameters of its registration's
\* factory, from the left, each for the unnamed key of the parameter's
\* type and with the caller's scope and chain (a registered parameter type
\* that is on the path fails as a cycle whose chain is that path); a call
\* that fails is the last one its caller makes, the caller's factory is
\* then not invoked and the caller fails with that failure as its cause;
\* a factory is invoked only after every parameter resolved.
C22_AutoWiring ==
    [][ResolvedNow =>
          LET ev == last'.ev IN
          \A j \in 1..Len(ev) :
              LET K == KidsOf(ev, j)
                  in == IF ev[j].key \in DOMAIN registrations
                        THEN registrations[ev[j].key].factory.in ELSE <<>>
              IN
              /\ Cardinality(K) <= Len(in)
              /\ \A i \in K :
                    /\ ev[i].key = registrationKey(in[RankIn(K, i)], "")
                    /\ ev[i].scope = ev[j].scope
                    /\ (ev[i].key \in DOMAIN registrations
                           /\ inChain(PathOf(ev, i), ev[i].key[1]))
                          => ev[i].err = ErrCircularDependency(
                                             Append(PathOf(ev, i), ev[i].key[1]))
                    /\ ev[i].kind # "ok" =>
                          /\ \A k \in K : k <= i
                          /\ ~ev[j].invoked
                          /\ ev[j].kind = "err"
                          /\ ev[j].err.e = "ErrResolutionFailed"
                          /\ ev[j].err.Cause = ev[i].err
              /\ ev[j].invoked =>
                    /\ Cardinality(K) = Len(in)
                    /\ \A i \in K : ev[i].kind = "ok"]_vars

\* B's factory takes an A and a B, A is registered under the name n only,
\* and the resolution of B has stopped at its first parameter.
C22_Witness ==
    /\ IsResolve(last.op)
    /\ last.key = registrationKey("B", "")
    /\ HasNamed("A", "n") /\ ~Has("A") /\ Has("B")
    /\ registrations[last.key].factory.in = <<"A", "B">>
    /\ Len(last.ev) = 2
    /\ last.ev[1].err = ErrNotRegistered("A")
    /\ last.res.kind = "err"

\* errors.Unwrap applied n times (nil when there is nothing to unwrap).
RECURSIVE UnwrapN(_, _)
UnwrapN(err, n) ==
    IF n = 0 THEN err
    ELSE IF err.e # "ErrResolutionFailed" THEN NoError
    ELSE UnwrapN(err.Cause, n - 1)

\* The calls of a trace that failed although none of their parameters did:
\* where the failure arose.
Origins(ev) ==
    {i \in 1..Len(ev) :
        ev[i].kind = "err" /\ \A k \in KidsOf(ev, i) : ev[k].kind = "ok"}

\* C23: dependency failures are wrapped once per level.  A resolve call
\* that fails because one of its parameters failed returns
\* ErrResolutionFailed with its own type and the parameter's failure,
\* unchanged, as cause; so the failure of a call d >= 1 levels down reaches
\* the caller under exactly d layers, which name the types on the path from
\* the requested type down, and d times Unwrap gives the failure back.
C23_WrappedOncePerLevel ==
    [][(ResolvedNow /\ last'.res.kind = "err") =>
          LET ev == last'.ev IN
          /\ \A j \in 1..Len(ev) : \A i \in KidsOf(ev, j) :
                ev[i].kind = "err" =>
                    ev[j].err = ErrResolutionFailed(ev[j].key[1], ev[i].err)
          /\ \A o \in Origins(ev) :
                LET d == ev[o].depth
                    path == PathOf(ev, o)
                IN
                /\ UnwrapN(last'.res.err, d) = ev[o].err
                /\ \A k \in 1..d :
                      LET layer == UnwrapN(last'.res.err, k - 1) IN
                      /\ layer.e = "ErrResolutionFailed"
                      /\ layer.Type = path[k]
                /\ d >= 1 => last'.res.err.Type = last'.key[1]
                /\ WrapDepth(last'.res.err) = d + WrapDepth(ev[o].err)
                /\ RootCause(last'.res.err) = RootCause(ev[o].err)]_vars

\* The resolution of (A, n) has failed two levels down, at the unnamed A,
\* which is not registered, and the failure has arrived under two layers.
C23_Witness ==
    /\ last.op = "ResolveNamed"
    /\ last.key = registrationKey("A", "n")
    /\ last.res.kind = "err"
    /\ Len(last.ev) = 3
    /\ last.ev[1].depth = 2
    /\ last.res.err =
          ErrResolutionFailed("A", ErrResolutionFailed("B", ErrNotRegistered("A")))

\* ------------------------------------------------------------------ scopes
\* CreateScope has just returned.
ScopeCreatedNow == last'.op = "CreateScope" /\ Len(instances') = Len(instances) + 1

\* The objects a Scope holds.
Cached(s) == {instances[s][k] : k \in DOMAIN instances[s]}

\* C24: CreateScope replacement.  CreateScope(name) returns a new Scope
\* with an empty cache, which becomes the container's entry for the name
\* while the entries of the other names stay; the Scopes created before,
\* under this name too, keep their caches and stay usable: a resolution in
\* one Scope reads and writes no other Scope's cache, and no object is in
\* the caches of two Scopes, so that a Scoped key resolved in the old and
\* in the new Scope gives two instances.
C24_CreateScopeReplaces ==
    /\ [][ScopeCreatedNow =>
             LET new == Len(instances) + 1
                 name == last'.key[2]
             IN
             /\ last'.scope = new
             /\ instances'[new] = EmptyMap
             /\ \A s \in Created : instances'[s] = instances[s]
             /\ DOMAIN scopes' = DOMAIN scopes \cup {name}
             /\ scopes'[name] = new
             /\ \A n \in DOMAIN scopes \ {name} : scopes'[n] = scopes[n]
             /\ UNCHANGED <<registrations, singletons, nextObj>>]_vars
    /\ [][(ResolvedNow /\ last'.op = "ResolveInScope") =>
             /\ \A s \in Created \ {last'.scope} : instances'[s] = instances[s]
             /\ \A a \in last'.acc : a.map = "instances" => a.scope = last'.scope
             /\ \A i \in 1..Len(last'.ev) :
                   (/\ last'.scope # NoScope
                    /\ last'.ev[i].kind = "ok"
                    /\ last'.ev[i].key \in DOMAIN registrations
                    /\ registrations[last'.ev[i].key].lifetime = Scoped)
                      => /\ last'.ev[i].key \in DOMAIN instances'[last'.scope]
                         /\ instances'[last'.scope][last'.ev[i].key] = last'.ev[i].val
                         /\ last'.ev[i].invoked =
                               (last'.ev[i].key \notin DOMAIN instances[last'.scope])]_vars
    /\ [][\A s1, s2 \in 1..Len(instances') :
             s1 # s2 => {instances'[s1][k] : k \in DOMAIN instances'[s1]}
                           \cap {instances'[s2][k] : k \in DOMAIN instances'[s2]} = {}]_vars

\* Two Scopes were created under the name s; the Scoped A was resolved in
\* the first, then in the second, which gave another instance, and now
\* again in the first, which the container no longer knows, and that gave
\* the first's instance without a factory call.
C24_Witness ==
    /\ Len(instances) = 2
    /\ DOMAIN scopes = {"s"} /\ scopes["s"] = 2
    /\ last.op = "ResolveInScope" /\ last.scope = 1
    /\ last.key = registrationKey("A", "")
    /\ last.res.kind = "ok" /\ ~last.ev[1].invoked
    /\ last.key \in DOMAIN instances[1] /\ last.key \in DOMAIN instances[2]
    /\ instances[1][last.key] = last.res.val
    /\ instances[2][last.key] # last.res.val

\* --------------------------------------------------------- failed resolutions
\* A sequential resolution has just returned a failure.
FailedNow == ResolvedNow /\ last'.res.kind = "err"

\* The resolve calls of a trace that built an instance of key k registered
\* with the given lifetime.
Built(ev, k, lifetime) ==
    {i \in 1..Len(ev) :
        /\ ev[i].key = k /\ ev[i].kind = "ok" /\ ev[i].invoked
        /\ k \in DOMAIN registrations /\ registrations[k].lifetime = lifetime}

\* C25 as claimed: a Resolve call that returns a failure leaves the
\* registry, the singleton cache and every scope cache as they were.
C25_FailureHasNoEffect ==
    [][FailedNow => UNCHANGED <<registrations, singletons, scopes, instances>>]_vars

\* C25, amended: a Resolve call that returns a failure leaves the registry
\* and the scope table as they were and stores nothing under the requested
\* key or any other key whose resolve call failed; what it leaves behind
\* are exactly the instances of the dependencies it built before the
\* failure: the Singleton ones in the singleton cache, the Scoped ones in
\* the cache of the scope it was given; every other cache entry is as
\* before.
C25_FailureKeepsBuiltDependencies ==
    [][FailedNow =>
          LET ev == last'.ev
              scope == last'.scope
          IN
          /\ UNCHANGED <<registrations, scopes>>
          /\ \A i \in 1..Len(ev) :
                ev[i].kind # "ok" =>
                    /\ SameEntry(singletons, singletons', ev[i].key)
                    /\ \A s \in Created :
                          SameEntry(instances[s], instances'[s], ev[i].key)
          /\ SameEntry(singletons, singletons', last'.key)
          /\ \A k \in Keys :
                IF Built(ev, k, Singleton) = {}
                THEN SameEntry(singletons, singletons', k)
                ELSE /\ k \in DOMAIN singletons'
                     /\ \E i \in Built(ev, k, Singleton) : singletons'[k] = ev[i].val
          /\ \A s \in Created : \A k \in Keys :
                IF s # scope \/ Built(ev, k, Scoped) = {}
                THEN SameEntry(instances[s], instances'[s], k)
                ELSE /\ k \in DOMAIN instances'[s]
                     /\ \E i \in Built(ev, k, Scoped) : instances'[s][k] = ev[i].val]_vars

\* The resolution of B has failed at its second parameter after it built
\* the Singleton A for its first, and that A is in the singleton cache.
C25_Witness ==
    /\ IsResolve(last.op)
    /\ last.key = registrationKey("B", "")
    /\ last.res.kind = "err"
    /\ Len(last.ev) = 3
    /\ last.ev[1].kind = "ok" /\ last.ev[1].invoked
    /\ last.ev[1].key \in DOMAIN singletons
    /\ singletons[last.ev[1].key] = last.ev[1].val
    /\ last.key \notin DOMAIN singletons

\* -------------------------------------------------------------------- cycles
\* The ErrCircularDependency failures of a trace, where they arose.
CycleEvents(ev) ==
    {i \in 1..Len(ev) : ev[i].kind = "err" /\ ev[i].err.e = "ErrCircularDependency"}

\* C26: the shape of the reported cycle chain.  In every
\* ErrCircularDependency failure Chain is the resolution path, outermost
\* type first, followed by the type asked for, which is on the path
\* already; and the repeated type is the first element of Chain as well as
\* the last.
C26_CycleChainShape ==
    [][ResolvedNow =>
          LET ev == last'.ev IN
          \A i \in CycleEvents(ev) :
              LET Chain == ev[i].err.Chain IN
              /\ Chain = Append(PathOf(ev, i), ev[i].key[1])
              /\ inChain(PathOf(ev, i), Chain[Len(Chain)])
              /\ Chain[1] = Chain[Len(Chain)]]_vars

\* ------------------------------------------------------------ registrations
\* C27: the registration invariant.  Every registration in the registry
\* has a factory or a pre-built instance (or both), whatever Register,
\* RegisterInstance, with any value, RegisterType and Clear calls were made.
C27_RegistrationInvariant ==
    \A k \in DOMAIN registrations :
        registrations[k].factory.kind = "func" \/ registrations[k].instance # Nil

\* ---------------------------------------------------------- RegisterInstance
\* The goroutine is in RegisterInstance.
InRegisterInstance(g) == goroutines[g].call.op = "RegisterInstance"

\* The steps that read or write the registry or the singleton cache start
\* from these positions.
AtContainerAccess(g) ==
    goroutines[g].pc \in {"lookup", "sing", "store", "write", "has"}

\* C28: RegisterInstance(K, v) writes the registry entry of K, with
\* instance v and lifetime Singleton unless an option sets another, and
\* the singleton cache entry of K, set to v, as one atomic step: it holds
\* c.mu for writing from before the first write until after the second,
\* between the two no other goroutine reads or writes the registry or the
\* singleton cache, and when the mutex is released K's registration and
\* K's cache entry are the new ones, whatever was there before; the
\* entries of the other keys are untouched.
C28_RegisterInstanceAtomic ==
    [][\A g \in Goroutines :
          LET gr == goroutines[g]
              K == gr.call.key
              v == gr.call.arg
          IN
          InRegisterInstance(g) =>
             /\ (gr.pc = "write" /\ goroutines'[g].pc # "write") =>
                   /\ goroutines'[g].pc = "instance"
                   /\ mu'.writer = g /\ mu'.readers = {}
                   /\ registrations' = (K :> registrations'[K]) @@ registrations
                   /\ registrations'[K].instance = v
                   /\ registrations'[K].factory = NilFactory
                   /\ registrations'[K].lifetime = LifetimeOf(gr.call.opts, Singleton)
                   /\ singletons' = singletons
             /\ gr.pc = "instance" =>
                   /\ mu.writer = g /\ mu.readers = {}
                   /\ goroutines'[g].pc = "instance" =>
                         /\ UNCHANGED <<registrations, singletons>>
                         /\ \A h \in Goroutines \ {g} :
                               AtContainerAccess(h) => goroutines'[h] = goroutines[h]
                   /\ goroutines'[g].pc # "instance" =>
                         /\ goroutines'[g].pc = "unlock"
                         /\ mu'.writer = g
                         /\ singletons' = (K :> v) @@ singletons
                         /\ registrations' = registrations
             /\ gr.pc = "unlock" =>
                   /\ registrations[K].instance = v
                   /\ K \in DOMAIN singletons /\ singletons[K] = v
                   /\ goroutines'[g].pc = "unlock" =>
                         UNCHANGED <<registrations, singletons>>]_vars

\* A goroutine is about to release c.mu in RegisterInstance: the instance
\* it registered has replaced a factory registration and the singleton
\* cached for it, while another goroutine, which found the factory
\* registration, waits to read the singleton cache.
C28_Witness ==
    \E g, h \in Goroutines :
        /\ InRegisterInstance(g)
        /\ goroutines[g].pc = "unlock"
        /\ hist[goroutines[g].call.key].staleSing
        /\ singletons[goroutines[g].call.key] = goroutines[g].call.arg
        /\ goroutines[h].pc = "sing"
        /\ Top(goroutines[h]).reg.factory.kind = "func"

\* The map accesses the call of event i can have made: those recorded for
\* its key at its depth.
AccessedBy(l, i, map) ==
    {a \in l.acc : a.map = map /\ a.key = l.ev[i].key /\ a.depth = l.ev[i].depth}

\* C29: the registry lookup precedes the cycle check, which precedes the
\* pre-built instance and the cache lookups.  A resolve call for a key
\* without registration fails with ErrNotRegistered, also when its type is
\* on the chain; a call for a registered key whose type is on the chain
\* fails with ErrCircularDependency, also when the registration holds an
\* instance or a cache holds the key, and it reads neither cache.
C29_LookupThenCycleThenCaches ==
    [][ResolvedNow =>
          LET ev == last'.ev IN
          \A i \in 1..Len(ev) :
              LET key == ev[i].key
                  path == PathOf(ev, i)
              IN
              /\ key \notin DOMAIN registrations =>
                    /\ ev[i].kind = "err"
                    /\ ev[i].err = ErrNotRegistered(key[1])
              /\ (key \in DOMAIN registrations /\ inChain(path, key[1])) =>
                    /\ ev[i].kind = "err"
                    /\ ev[i].err = ErrCircularDependency(Append(path, key[1]))
                    /\ AccessedBy(last', i, "singletons") = {}
                    /\ AccessedBy(last', i, "instances") = {}
              /\ AccessedBy(last', i, "registrations") # {}]_vars

\* The resolution of (A, n) has failed two levels down at the unnamed A,
\* as a cycle, although the unnamed A is a Singleton whose instance is in
\* the singleton cache.
C29_Witness ==
    /\ last.op = "ResolveNamed"
    /\ last.key = registrationKey("A", "n")
    /\ Len(last.ev) = 3
    /\ last.ev[1].key = registrationKey("A", "")
    /\ last.ev[1].err = ErrCircularDependency(<<"A", "B", "A">>)
    /\ registrations[last.ev[1].key].lifetime = Singleton
    /\ registrations[last.ev[1].key].instance = Nil
    /\ last.ev[1].key \in DOMAIN singletons

\* ------------------------------------------------------- scope in auto-wiring
\* The unnamed key of t is a Transient whose factory takes a d, and the
\* unnamed key of d is a Scoped whose factory takes nothing.
Wired(t, d) ==
    LET T == registrationKey(t, "")
        D == registrationKey(d, "")
    IN
    /\ T \in DOMAIN registrations /\ D \in DOMAIN registrations
    /\ registrations[T].lifetime = Transient
    /\ registrations[T].factory.in = <<d>>
    /\ registrations[D].lifetime = Scoped
    /\ registrations[D].factory.in = <<>>

\* C30: the scope is threaded through auto-wiring.  Let T be a Transient
\* whose factory takes a Scoped D.  Every resolution of T builds a new T
\* and resolves D with the scope T was resolved with.  With a scope s, D
\* is the instance in s's cache, built by the first resolution that asked
\* for D in s and stored there, so that D's factory runs once for s and
\* all Ts resolved in s share one D; T itself is cached nowhere.  Without
\* a scope a new D is built each time and nothing is stored.
C30_ScopeThreaded ==
    /\ [][\A t, d \in Types :
             (Wired(t, d) /\ ResolvedNow /\ last'.key = registrationKey(t, "")) =>
                LET T == registrationKey(t, "")
                    D == registrationKey(d, "")
                    s == last'.scope
                    ev == last'.ev
                IN
                /\ Len(ev) = 2
                /\ ev[1].key = D /\ ev[1].scope = s /\ ev[1].kind = "ok"
                /\ ev[2].key = T /\ ev[2].kind = "ok" /\ ev[2].invoked
                /\ ev[2].val \notin Returned(T)
                /\ singletons' = singletons
                /\ IF s = NoScope
                   THEN /\ ev[1].invoked
                        /\ ev[1].val \notin Returned(D)
                        /\ instances' = instances
                   ELSE /\ ev[1].invoked = (D \notin DOMAIN instances[s])
                        /\ ~ev[1].invoked => ev[1].val = instances[s][D]
                        /\ instances' = [instances EXCEPT ![s] = (D :> ev[1].val) @@ @]]_vars
    /\ [][\A t, d \in Types :
             Wired(t, d)' =>
                LET T == registrationKey(t, "")
                    D == registrationKey(d, "")
                IN
                /\ \A s \in 1..Len(instances') :
                      /\ hist'[D].calls[s] <= 1
                      /\ Cardinality({p \in hist'[D].got : p[1] = s}) <= 1
                      /\ T \notin DOMAIN instances'[s]
                /\ hist'[D].calls[NoScope]
                      = Cardinality({p \in hist'[D].got : p[1] = NoScope})
                /\ Cardinality(hist'[T].got) = hist'[T].n
                /\ T \notin DOMAIN singletons']_vars

\* B, a Transient that takes the Scoped A, was resolved twice in the first
\* scope and once without a scope: that gave three Bs; A's factory ran
\* once for the scope, whose cache holds that A, and once without it.
C30_Witness ==
    LET T == registrationKey("B", "")
        D == registrationKey("A", "")
    IN
    /\ Wired("B", "A")
    /\ Cardinality(ReturnedIn(T, 1)) = 2
    /\ Cardinality(ReturnedIn(T, NoScope)) = 1
    /\ hist[D].calls[1] = 1
    /\ hist[D].calls[NoScope] = 1
    /\ hist[D].n = 3
    /\ ReturnedIn(D, 1) = {instances[1][D]}
    /\ ReturnedIn(D, NoScope) \cap ReturnedIn(D, 1) = {}

\* ------------------------------------------------------ frame of a resolution
\* The keys at which the map m2 differs from the map m1.
Changed(m1, m2) ==
    {k \in DOMAIN m2 : k \notin DOMAIN m1 \/ m1[k] # m2[k]}
        \cup (DOMAIN m1 \ DOMAIN m2)

\* The keys the resolution l stored in the given map of the given scope.
StoredBy(l, map, scope) ==
    {a.key : a \in {b \in l.acc : b.op = "set" /\ b.map = map /\ b.scope = scope}}

\* C31: the frame of a resolution.  A resolution leaves the registry and
\* the container's scope table as they are and creates no Scope; it reads
\* and writes the cache of no Scope but the one it was called with (none
\* when called without a scope); it stores in the singleton cache only
\* under keys registered as Singleton and in the scope's cache only under
\* keys registered as Scoped; and the caches change nowhere but at the
\* keys it stored.
C31_ResolutionFrame ==
    [][ResolvedNow =>
          LET l == last'
              s == l.scope
          IN
          /\ registrations' = registrations
          /\ scopes' = scopes
          /\ Len(instances') = Len(instances)
          /\ \A a \in l.acc :
                /\ a.map = "instances" => (s # NoScope /\ a.scope = s)
                /\ a.op = "set" =>
                      /\ a.map \in {"singletons", "instances"}
                      /\ a.key \in DOMAIN registrations
                      /\ a.map = "singletons" =>
                            registrations[a.key].lifetime = Singleton
                      /\ a.map = "instances" =>
                            registrations[a.key].lifetime = Scoped
          /\ Changed(singletons, singletons') \subseteq StoredBy(l, "singletons", NoScope)
          /\ \A b \in Created :
                /\ Changed(instances[b], instances'[b]) \subseteq StoredBy(l, "instances", b)
                /\ b # s => instances'[b] = instances[b]]_vars

\* B, Scoped, was resolved in the second Scope while the first one holds a
\* B of its own: the resolution stored its B in the second Scope's cache
\* and the A it built for it, a Singleton, in the singleton cache.
C31_Witness ==
    /\ last.op = "ResolveInScope"
    /\ last.scope = 2
    /\ registrationKey("B", "") \in DOMAIN instances[1]
    /\ StoredBy(last, "instances", 2) = {registrationKey("B", "")}
    /\ StoredBy(last, "singletons", NoScope) = {registrationKey("A", "")}
    /\ instances[1][registrationKey("B", "")] # instances[2][registrationKey("B", "")]

\* ------------------------------------------------------ chains are per call
\* The types of the first n activations of a stack, outermost first.
AncestorsIn(stack, n) == [i \in 1..n |-> stack[i].key[1]]

\* C32: the cycle-detection state is private to each top-level call.  The
\* chain of every activation of resolve holds the types of the activations
\* below it on its own goroutine's stack and nothing else, whatever calls
\* other goroutines are in or have completed; and when a call returns,
\* each of its resolve calls for a registered key has failed with
\* ErrCircularDependency exactly when the type it asked for was being
\* resolved further up its own path.
C32_ChainPerCall ==
    /\ [](\A g \in Goroutines :
             \A j \in 1..Len(goroutines[g].stack) :
                 goroutines[g].stack[j].chain
                     = AncestorsIn(goroutines[g].stack, j - 1))
    /\ [][\A g \in Goroutines :
             (Returns(g) /\ IsResolve(last'.op)) =>
                LET ev == last'.ev IN
                \A i \in 1..Len(ev) :
                    /\ ev[i].err.e = "ErrCircularDependency" =>
                          /\ inChain(PathOf(ev, i), ev[i].key[1])
                          /\ ev[i].err.Chain = Append(PathOf(ev, i), ev[i].key[1])
                    /\ (ev[i].key \in DOMAIN registrations
                           /\ inChain(PathOf(ev, i), ev[i].key[1]))
                          => ev[i].err.e = "ErrCircularDependency"]_vars

\* Both goroutines are in a resolution of B at the same time and each has
\* reached B's parameter A, which is registered: each chain holds B alone.
C32_Witness ==
    /\ Has("A") /\ Has("B")
    /\ \A g \in Goroutines :
          /\ Len(goroutines[g].stack) = 2
          /\ goroutines[g].stack[1].key = registrationKey("B", "")
          /\ Top(goroutines[g]).key = registrationKey("A", "")
          /\ Top(goroutines[g]).chain = <<"B">>
          /\ goroutines[g].pc = "lookupUnlock"

\* ------------------------------------------------ concurrent scoped resolution
\* The unnamed key of t is registered as Scoped with a factory that returns
\* no error and whose parameters, if any, are registered in the same way.
ScopedChain(t) ==
    /\ FactoryReg(registrationKey(t, ""), Scoped)
    /\ Len(registrations[registrationKey(t, "")].factory.out) = 1
    /\ \A i \in DOMAIN registrations[registrationKey(t, "")].factory.in :
          LET p == registrations[registrationKey(t, "")].factory.in[i] IN
          /\ FactoryReg(registrationKey(p, ""), Scoped)
          /\ registrations[registrationKey(p, "")].factory.in = <<>>
          /\ Len(registrations[registrationKey(p, "")].factory.out) = 1

\* C33: concurrent scoped resolution.  Every ResolveInScope of a Scoped key
\* on a Scope, whatever other resolutions on that Scope run at the same
\* time, returns an instance and no error.  When all calls have returned,
\* the Scope's cache holds for each key resolved in it one of the instances
\* returned for it, and a resolution of the key in that Scope that begins
\* then returns that instance, invokes no factory and leaves the cache as
\* it is.
C33_ConcurrentScoped ==
    /\ [][\A g \in Goroutines :
             (/\ Returns(g)
              /\ last'.op = "ResolveInScope"
              /\ last'.scope # NoScope
              /\ ScopedChain(last'.key[1])) =>
                /\ last'.res.kind = "ok"
                /\ last'.res.val # Nil
                /\ <<last'.scope, last'.res.val>> \in hist'[last'.key].got]_vars
    /\ [](AllIdle =>
             \A t \in Types, s \in Created :
                 (ScopedChain(t) /\ ReturnedIn(registrationKey(t, ""), s) # {}) =>
                    /\ registrationKey(t, "") \in DOMAIN instances[s]
                    /\ instances[s][registrationKey(t, "")]
                          \in ReturnedIn(registrationKey(t, ""), s))
    /\ [][\A t \in Types, s \in Created :
             (/\ AllIdle
              /\ ScopedChain(t)
              /\ ReturnedIn(registrationKey(t, ""), s) # {}
              /\ ResolvedNow
              /\ last'.key = registrationKey(t, "")
              /\ last'.scope = s) =>
                /\ last'.res = Ok(instances[s][registrationKey(t, "")])
                /\ \A i \in 1..Len(last'.ev) : ~last'.ev[i].invoked
                /\ instances' = instances
                /\ nextObj' = nextObj]_vars

\* Two goroutines resolved the Scoped A in the scope at the same time: both
\* missed the cache, both ran the factory and got an A each; the cache
\* holds one of the two, and a resolution made after both had returned got
\* that one.
C33_Witness ==
    LET K == registrationKey("A", "") IN
    /\ AllIdle
    /\ ScopedChain("A")
    /\ hist[K].calls[1] = 2
    /\ Cardinality(ReturnedIn(K, 1)) = 2
    /\ hist[K].n = 3
    /\ last.op = "ResolveInScope" /\ last.key = K /\ last.scope = 1
    /\ last.res = Ok(instances[1][K])
    /\ Len(last.ev) = 1 /\ ~last.ev[1].invoked

\* ------------------------------------------------- cycles are found by type
\* The key (t, x) is registered with a factory whose first parameter is of
\* type t itself, and the unnamed key of t is registered, in whatever way.
AsksForItself(t, x) ==
    /\ x # ""
    /\ registrationKey(t, x) \in DOMAIN registrations
    /\ registrations[registrationKey(t, x)].factory.kind = "func"
    /\ registrations[registrationKey(t, x)].instance = Nil
    /\ Len(registrations[registrationKey(t, x)].factory.in) >= 1
    /\ registrations[registrationKey(t, x)].factory.in[1] = t
    /\ registrationKey(t, "") \in DOMAIN registrations

Takes(t, in) ==
    /\ registrationKey(t, "") \in DOMAIN registrations
    /\ registrations[registrationKey(t, "")].factory.kind = "func"
    /\ registrations[registrationKey(t, "")].factory.in = in

\* A takes a B and a C, B and C take a D each, D takes nothing.
Diamond ==
    /\ Takes("A", <<"B", "C">>)
    /\ Takes("B", <<"D">>)
    /\ Takes("C", <<"D">>)
    /\ Takes("D", <<>>)

\* C35: a shared dependency is no cycle.  In every resolution a resolve
\* call fails with ErrCircularDependency only if the type it asks for is
\* among its own ancestors, the types whose factories are waiting for it,
\* and the chain reported is those ancestors and the type: the calls made
\* for its caller's earlier parameters, and the calls those made, do not
\* count.  With the diamond registered, Resolve of A succeeds: D is
\* resolved once under B and once under C, both times successfully.
C35_DiamondIsNoCycle ==
    [][ResolvedNow =>
          LET ev == last'.ev IN
          /\ \A i \in 1..Len(ev) :
                ev[i].err.e = "ErrCircularDependency" =>
                   /\ inChain(PathOf(ev, i), ev[i].key[1])
                   /\ ev[i].err.Chain = Append(PathOf(ev, i), ev[i].key[1])
          /\ (Diamond /\ last'.key = registrationKey("A", "")) =>
                /\ last'.res.kind = "ok"
                /\ [i \in 1..Len(ev) |-> ev[i].key[1]] = <<"D", "B", "D", "C", "A">>
                /\ [i \in 1..Len(ev) |-> ev[i].depth] = <<2, 1, 2, 1, 0>>
                /\ \A i \in 1..Len(ev) : ev[i].kind = "ok"
                /\ PathOf(ev, 3) = <<"A", "C">>
                /\ ev[2].invoked /\ ev[4].invoked /\ ev[5].invoked]_vars

\* The diamond is registered with a Transient D and A has been resolved:
\* two Ds were built, one for B and one for C.
C35_Witness ==
    /\ Diamond
    /\ last.op = "ResolveNamed"
    /\ last.key = registrationKey("A", "")
    /\ last.res.kind = "ok"
    /\ Len(last.ev) = 5
    /\ last.ev[1].invoked /\ last.ev[3].invoked
    /\ last.ev[1].val # last.ev[3].val

\* ------------------------------------------------ captive scoped dependency
\* The unnamed key of t is a Singleton whose factory takes a d, and the
\* unnamed key of d is a Scoped whose factory takes nothing.
Captive(t, d) ==
    /\ FactoryReg(registrationKey(t, ""), Singleton)
    /\ registrations[registrationKey(t, "")].factory.in = <<d>>
    /\ FactoryReg(registrationKey(d, ""), Scoped)
    /\ registrations[registrationKey(d, "")].factory.in = <<>>

\* The Ds the Singleton may hold, given that its factory ran in a
\* resolution with scope a: the D in a's cache, or, without a scope, one of
\* the Ds resolved without a scope.
KeptFor(D, a) ==
    IF a = NoScope THEN ReturnedIn(D, NoScope)
    ELSE IF D \in DOMAIN instances[a] THEN {instances[a][D]} ELSE {}

\* C36: a Singleton S whose factory takes a Scoped D keeps the D of the
\* scope that first resolved it.  The resolution that builds S, with scope
\* a, resolves D with a and caches S; from then on a resolution of S with
\* any scope b returns the cached S, resolves no D, calls no factory and
\* leaves every scope's cache as it is; and a resolution of D in a scope
\* other than a returns a D of that scope's own, not the D S was built
\* with.
C36_CaptiveDependency ==
    [][\A t, d \in Types :
          (Captive(t, d) /\ ResolvedNow /\ last'.op = "ResolveInScope") =>
             LET S == registrationKey(t, "")
                 D == registrationKey(d, "")
                 b == last'.scope
                 ev == last'.ev
             IN
             /\ (last'.key = S /\ S \notin DOMAIN singletons) =>
                   /\ Len(ev) = 2
                   /\ ev[1].key = D /\ ev[1].scope = b /\ ev[1].kind = "ok"
                   /\ ev[2].invoked
                   /\ singletons' = (S :> ev[2].val) @@ singletons
                   /\ hist'[S].calls[b] = 1
                   /\ IF b = NoScope
                      THEN <<NoScope, ev[1].val>> \in hist'[D].got
                      ELSE ev[1].val = instances'[b][D]
             /\ (last'.key = S /\ S \in DOMAIN singletons) =>
                   /\ last'.res = Ok(singletons[S])
                   /\ Len(ev) = 1 /\ ~ev[1].invoked
                   /\ instances' = instances
                   /\ singletons' = singletons
                   /\ nextObj' = nextObj
             /\ (last'.key = D /\ b # NoScope) =>
                   \A a \in {NoScope} \cup Created :
                      (a # b /\ hist[S].calls[a] = 1) =>
                         /\ last'.res.kind = "ok"
                         /\ last'.res.val \notin KeptFor(D, a)
                         /\ last'.res.val = instances'[b][D]]_vars

\* B, a Singleton that takes the Scoped A, was built in the first scope
\* and resolved again in the second, which gave the same B and left the
\* second scope's cache empty; A was then resolved in the second scope and
\* is another A than the one of the first scope, with which B was built.
C36_Witness ==
    LET S == registrationKey("B", "")
        D == registrationKey("A", "")
    IN
    /\ Captive("B", "A")
    /\ hist[S].calls[1] = 1
    /\ ReturnedIn(S, 1) = {singletons[S]}
    /\ ReturnedIn(S, 2) = {singletons[S]}
    /\ last.op = "ResolveInScope" /\ last.key = D /\ last.scope = 2
    /\ hist[D].calls[2] = 1
    /\ last.res.val = instances[2][D]
    /\ instances[2][D] # instances[1][D]
    /\ DOMAIN instances[2] = {D}

\* ------------------------------------------------ Clear and the scopes' caches
\* C37: Clear does not empty the Scope objects already handed out.  A
\* Clear leaves the cache of every Scope object as it is, and no other
\* step removes or replaces an entry of a Scope's cache; so when a key is
\* registered as Scoped while a Scope's cache holds an entry for it, as
\* after a Clear and a new registration, ResolveInScope with that Scope
\* returns the entry, invokes no factory and leaves the cache as it is.
C37_ClearKeepsScopeCaches ==
    /\ [][(nOps' # nOps /\ last'.op = "Clear") =>
             /\ Len(instances') = Len(instances)
             /\ instances' = instances]_vars
    /\ [][\A s \in Created : \A k \in DOMAIN instances[s] :
             /\ s \in 1..Len(instances')
             /\ k \in DOMAIN instances'[s]
             /\ instances'[s][k] = instances[s][k]]_vars
    /\ [][(/\ ResolvedNow
           /\ last'.op = "ResolveInScope"
           /\ last'.scope # NoScope
           /\ FactoryReg(last'.key, Scoped)
           /\ last'.key \in DOMAIN instances[last'.scope]) =>
             /\ last'.res = Ok(instances[last'.scope][last'.key])
             /\ Len(last'.ev) = 1
             /\ ~last'.ev[1].invoked
             /\ instances' = instances
             /\ nextObj' = nextObj]_vars

\* A was resolved in a scope, the container cleared, A registered again as
\* Scoped, with the (A, error) factory, and resolved in the old Scope, which
\* the container no longer knows: the resolution returned the old Scope's
\* entry, made before the Clear, and the new factory has not been called.
C37_Witness ==
    LET K == registrationKey("A", "") IN
    /\ FactoryReg(K, Scoped)
    /\ registrations[K].factory.out = <<"A", "error">>
    /\ scopes = EmptyMap
    /\ 1 \in hist[K].staleScopes
    /\ last.op = "ResolveInScope" /\ last.scope = 1
    /\ last.res = Ok(instances[1][K])
    /\ hist[K].n = 1
    /\ TotalCalls(K) = 0

\* --------------------------------------------------- cache within registry
\* C38: every key of the singleton cache has a registration, in every
\* state, whatever calls of Register, RegisterInstance, Resolve and Clear
\* run at the same time.
C38_CacheWithinRegistry == DOMAIN singletons \subseteq DOMAIN registrations

\* ---------------------------------------------------- failures are not cached
\* Nothing stands in the way of a resolution of the unnamed key of t: the
\* environment is up, the key is registered with a factory, and so is every
\* parameter of that factory, with a factory that takes nothing.
CauseGone(t) ==
    /\ ~down
    /\ registrationKey(t, "") \in DOMAIN registrations
    /\ registrations[registrationKey(t, "")].factory.kind = "func"
    /\ \A i \in DOMAIN registrations[registrationKey(t, "")].factory.in :
          LET p == registrationKey(registrations[registrationKey(t, "")].factory.in[i], "")
          IN  /\ p \in DOMAIN registrations
              /\ registrations[p].factory.kind = "func"
              /\ registrations[p].factory.in = <<>>

\* The entry of the map m for the key k, as a set.
EntryOf(m, k) == IF k \in DOMAIN m THEN {m[k]} ELSE {}

\* C39: failures are not cached.  When a resolve call for a key K fails,
\* because its factory returned an error or a parameter failed, the
\* singleton cache and every scope's cache hold for K what they held
\* before; so a key registered as Singleton or Scoped whose resolutions
\* have all failed is in no cache, and a resolution of K made when the
\* cause has gone invokes K's factory, succeeds, and caches the new
\* instance.
C39_FailuresNotCached ==
    /\ [][ResolvedNow =>
             \A i \in 1..Len(last'.ev) :
                 last'.ev[i].kind = "err" =>
                    /\ EntryOf(singletons', last'.ev[i].key)
                          = EntryOf(singletons, last'.ev[i].key)
                    /\ \A s \in Created :
                          EntryOf(instances'[s], last'.ev[i].key)
                             = EntryOf(instances[s], last'.ev[i].key)]_vars
    /\ [](\A k \in DOMAIN registrations :
             (registrations[k].factory.kind = "func" /\ hist[k].n = 0
                 /\ ~hist[k].staleSing /\ hist[k].staleScopes = {}) =>
                /\ k \notin DOMAIN singletons
                /\ \A s \in Created : k \notin DOMAIN instances[s])
    /\ [][\A t \in Types :
             LET K == registrationKey(t, "") IN
             (/\ ResolvedNow
              /\ last'.key = K
              /\ CauseGone(t)
              /\ registrations[K].lifetime \in {Singleton, Scoped}
              /\ hist[K].fails >= 1
              /\ hist[K].n = 0
              /\ ~hist[K].staleSing /\ hist[K].staleScopes = {}) =>
                /\ last'.res.kind = "ok"
                /\ last'.ev[Len(last'.ev)].invoked
                /\ last'.res.val # Nil
                /\ registrations[K].lifetime = Singleton =>
                      singletons'[K] = last'.res.val
                /\ (registrations[K].lifetime = Scoped /\ last'.scope # NoScope) =>
                      instances'[last'.scope][K] = last'.res.val]_vars

\* The Singleton A failed to resolve while the environment was down; the
\* environment came back and A was resolved again: its factory ran a
\* second time and the instance is now cached.
C39_Witness ==
    LET K == registrationKey("A", "") IN
    /\ FactoryReg(K, Singleton)
    /\ hist[K].fails = 1
    /\ hist[K].n = 1
    /\ TotalCalls(K) = 2
    /\ last.key = K /\ last.res.kind = "ok"
    /\ singletons[K] = last.res.val
    /\ ~down

=========================================================================
